---- MODULE Spec2Model ----
(***************************************************************************)
(* A model of the metadata catalog core of the auto-tagging library:       *)
(* database.py (schema, one connection per thread), file_manager.py        *)
(* (catalog operations and the watchdog observer), tagging.py (tags and    *)
(* file-tag associations).                                                 *)
(*                                                                         *)
(* Text (paths, names, values, metadata) is a tuple of one-character       *)
(* strings, so that basename, dirname and join are computed on the         *)
(* characters as posixpath computes them.                                   *)
(*                                                                         *)
(* The store is one SQLite file in rollback-journal mode.  Every thread    *)
(* has its own connection (threading.local).  Python's sqlite3 opens a     *)
(* transaction before the first INSERT/UPDATE/DELETE of a connection, the  *)
(* statement takes the database's single write lock, and the lock is held  *)
(* until that connection commits or rolls back.  Other connections read    *)
(* the committed state meanwhile; a second writer waits for the lock.      *)
(* The wait is modelled as blocking (sqlite3's default busy timeout of     *)
(* five seconds is not modelled).                                          *)
(***************************************************************************)
EXTENDS Integers, Sequences, FiniteSets, TLC

\* ------------------------------------------------------------------ bounds

\* Operations the caller contexts may begin in one behaviour.
MaxOps == 2
\* Move events the filesystem may produce in one behaviour.
MaxEvents == 1

\* Connections opened in one behaviour of the connection specification.
MaxConns == 3

\* ------------------------------------------------------------------ contexts

Callers == {"c1", "c2"}

Watcher == "w"

Ctx == Callers \cup {Watcher}

\* The thread that constructed the FileManager and drives its start/stop.
Owner == "c1"

NoCtx == "none"

\* ------------------------------------------------------------------ text

NULL == <<"NULL">>

Sep == "/"

PathAX == <<"/", "a", "/", "x">>

PathAY == <<"/", "a", "/", "y">>

PathBZ == <<"/", "b", "/", "z">>

PathAD == <<"/", "a", "/", "d">>

PathRelX == <<"x">>

Paths == {PathAX, PathAY, PathBZ, PathAD, PathRelX}

\* /a/X: the name of /a/x in another case.
PathAXUpper == <<"/", "a", "/", "X">>

\* /a//x: /a/x as a caller may spell it.
PathAXX == <<"/", "a", "/", "/", "x">>

\* The paths of the filesystem's entries.
FsPaths == Paths \cup {PathAXUpper}

\* /c/x: a path whose directory /c is not on disk.
PathCX == <<"/", "c", "/", "x">>

\* /a/d/x: a path inside the directory /a/d.
PathADX == <<"/", "a", "/", "d", "/", "x">>

\* Paths the callers pass to add_file.
AddPaths == {PathAX, PathBZ}

\* Paths the owner passes to add_file while the monitor is observed: in a
\* directory on disk, with no directory part, in a directory not on disk.
StartPaths == {PathBZ, PathRelX, PathCX}

\* (old_path, new_path) pairs the callers pass to update_file_path.
MovePairs == {<<PathAX, PathAY>>, <<PathAX, PathBZ>>, <<PathBZ, PathAX>>}

DirA == <<"/", "a">>

DirB == <<"/", "b">>

\* Directories that exist on disk throughout.
ExistingDirs == {DirA, DirB}

Metadatas == {<< >>, <<"p">>}

\* Values a caller passes to assign_tag_to_file; NULL is the default, None.
OptValues == {NULL, <<"q">>}

\* Names a caller passes to create_tag.
TagNames == {<<"t">>, <<"b">>}

TagTypes == {"boolean", "numeric", "string"}

\* Kinds a caller may pass to create_tag, one of them outside the CHECK list.
KindInputs == {"string", "bogus"}

\* File and tag ids the callers pass as arguments: ids of seeded rows and one
\* id no row of a seeded store holds.
FileArgIds == {1, 2, 3}

TagArgIds == {1, 3}

\* str.rfind('/') + 1: the index just after the last separator, 0-based slice
\* start; here the 1-based index of the last separator, 0 when there is none.
RFindSep(p) ==
    LET idx == {i \in 1..Len(p) : p[i] = Sep}
    IN  IF idx = {} THEN 0 ELSE CHOOSE i \in idx : \A j \in idx : j <= i

BasenameWhole(p) == p

\* posixpath.basename: p[p.rfind('/') + 1:]
Basename(p) == SubSeq(p, RFindSep(p) + 1, Len(p))

RECURSIVE RStripSep(_)
RStripSep(p) ==
    IF Len(p) > 0 /\ p[Len(p)] = Sep THEN RStripSep(SubSeq(p, 1, Len(p) - 1)) ELSE p

\* posixpath.dirname: head = p[:rfind+1]; unless head is all separators,
\* its trailing separators are stripped.
Dirname(p) ==
    LET head == SubSeq(p, 1, RFindSep(p))
    IN  IF head # << >> /\ (\E i \in 1..Len(head) : head[i] # Sep)
        THEN RStripSep(head)
        ELSE head

\* posixpath.join(a, b)
Join(a, b) ==
    IF b # << >> /\ b[1] = Sep THEN b
    ELSE IF a = << >> \/ a[Len(a)] = Sep THEN a \o b
    ELSE a \o <<Sep>> \o b

\* Path resolution takes a run of separators for one separator.
RECURSIVE Collapse(_)
Collapse(p) ==
    IF Len(p) < 2 THEN p
    ELSE IF p[1] = Sep /\ p[2] = Sep THEN Collapse(Tail(p))
    ELSE <<p[1]>> \o Collapse(Tail(p))

\* os.path.exists(p) on the filesystem fsys
Exists(fsys, p) == Collapse(p) \in DOMAIN fsys /\ fsys[Collapse(p)] # "none"

\* ------------------------------------------------------------------ store

\* The tables init_schema creates, in the order of its statements.
SchemaTables == <<"files", "tags", "file_tags", "logs">>

AllTables == {SchemaTables[i] : i \in 1..Len(SchemaTables)}

\* The database file once init_schema has run on a new file: schema is the set
\* of tables it holds, seq the AUTOINCREMENT sequences.
EmptyDb ==
    [schema |-> AllTables,
     files |-> {}, tags |-> {}, file_tags |-> {}, logs |-> {},
     seq |-> [files |-> 0, tags |-> 0, logs |-> 0]]

\* The file sqlite3.connect creates when there is none: no table.
NewFile == [EmptyDb EXCEPT !.schema = {}]

CreateTableFresh(d, t) ==
    [d EXCEPT !.schema = @ \cup {t}, ![t] = {}]

\* CREATE TABLE IF NOT EXISTS t (...): nothing when the file holds a table t,
\* else a new table without rows.
CreateTableIfNotExists(d, t) ==
    IF t \in d.schema THEN d
    ELSE [d EXCEPT !.schema = @ \cup {t}, ![t] = {}]

ForeignKeysOff == FALSE

\* PRAGMA foreign_keys = ON, issued on every connection when it is opened.
ForeignKeys == TRUE

\* The action text written to logs: the f-string's fixed part and its fields.
Action(kind, ints, texts) == [kind |-> kind, ints |-> ints, texts |-> texts]

InsertLogRotating(d, action) ==
    LET id == d.seq.logs + 1
    IN  [d EXCEPT !.logs = {r \in @ : r.id + 4 > id} \cup {[id |-> id, action |-> action]},
                  !.seq.logs = id]

\* INSERT INTO logs (action) VALUES (?)
InsertLog(d, action) ==
    LET id == d.seq.logs + 1
    IN  [d EXCEPT !.logs = @ \cup {[id |-> id, action |-> action]},
                  !.seq.logs = id]

InsertFileRowid(d, path, metadata) ==
    LET ids == {r.id : r \in d.files}
        id == IF ids = {} THEN 1 ELSE (CHOOSE x \in ids : \A y \in ids : y <= x) + 1
    IN  [d EXCEPT !.files = @ \cup {[id |-> id, file_path |-> path,
                                     name |-> Basename(path), metadata |-> metadata]},
                  !.seq.files = IF id > @ THEN id ELSE @]

InsertFileUniquePath(d, path, metadata) ==
    IF \E r \in d.files : r.file_path = path THEN d
    ELSE [d EXCEPT !.files = @ \cup {[id |-> d.seq.files + 1, file_path |-> path,
                                      name |-> Basename(path), metadata |-> metadata]},
                   !.seq.files = d.seq.files + 1]

\* INSERT INTO files (name, file_path, metadata) VALUES (basename, path, metadata):
\* id INTEGER PRIMARY KEY AUTOINCREMENT takes the next value of the table's
\* sequence, which no DELETE lowers.
InsertFile(d, path, metadata) ==
    LET id == d.seq.files + 1
    IN  [d EXCEPT !.files = @ \cup {[id |-> id, file_path |-> path,
                                     name |-> Basename(path), metadata |-> metadata]},
                  !.seq.files = id]

DeleteFileNoCascade(d, id) ==
    [d EXCEPT !.files = {r \in @ : r.id # id}]

DeleteFileAndTags(d, id) ==
    LET carried == {ft.tag_id : ft \in {x \in d.file_tags : x.file_id = id}}
    IN  [d EXCEPT !.files = {f \in @ : f.id # id},
                  !.tags = {t \in @ : t.id \notin carried},
                  !.file_tags = {ft \in @ : ft.file_id # id /\ ft.tag_id \notin carried}]

\* DELETE FROM files WHERE id = ?, with ON DELETE CASCADE on file_tags.file_id
DeleteFile(d, id) ==
    [d EXCEPT !.files = {r \in @ : r.id # id},
              !.file_tags = IF ForeignKeys THEN {r \in @ : r.file_id # id} ELSE @]

UpdatePathOnly(d, old, new) ==
    [d EXCEPT !.files = {IF r.file_path = old THEN [r EXCEPT !.file_path = new] ELSE r
                         : r \in @}]

UpdatePathFirstOnly(d, old, new) ==
    LET hit == {r \in d.files : r.file_path = old}
        one == IF hit = {} THEN {} ELSE {CHOOSE r \in hit : \A s \in hit : r.id <= s.id}
    IN  [d EXCEPT !.files = {IF r \in one
                             THEN [r EXCEPT !.file_path = new, !.name = Basename(new)]
                             ELSE r : r \in @}]

UpdatePathUpsert(d, old, new) ==
    IF \E r \in d.files : r.file_path = old
    THEN [d EXCEPT !.files = {IF r.file_path = old
                              THEN [r EXCEPT !.file_path = new, !.name = Basename(new)]
                              ELSE r : r \in @}]
    ELSE InsertFile(d, new, << >>)

UpdatePathReinsert(d, old, new) ==
    LET hit == {r \in d.files : r.file_path = old}
    IN  IF hit = {} THEN d
        ELSE LET r == CHOOSE x \in hit : \A y \in hit : x.id <= y.id
             IN  InsertFile(DeleteFile(d, r.id), new, r.metadata)

\* UPDATE files SET file_path = ?, name = ? WHERE file_path = ?
UpdatePath(d, old, new) ==
    [d EXCEPT !.files = {IF r.file_path = old
                         THEN [r EXCEPT !.file_path = new, !.name = Basename(new)]
                         ELSE r : r \in @}]

\* UPDATE files SET file_path = ? WHERE id = ?
UpdatePathById(d, id, new) ==
    [d EXCEPT !.files = {IF r.id = id THEN [r EXCEPT !.file_path = new] ELSE r
                         : r \in @}]

TagCheckNone(type) == TRUE

\* The CHECK(type IN ('boolean', 'numeric', 'string')) constraint of tags.
TagCheckOk(type) == type \in TagTypes

InsertTagUniqueName(d, name, type) ==
    IF \E t \in d.tags : t.name = name THEN d
    ELSE [d EXCEPT !.tags = @ \cup {[id |-> d.seq.tags + 1, name |-> name,
                                     type |-> type]},
                   !.seq.tags = d.seq.tags + 1]

\* INSERT INTO tags (name, type) VALUES (?, ?)
InsertTag(d, name, type) ==
    LET id == d.seq.tags + 1
    IN  [d EXCEPT !.tags = @ \cup {[id |-> id, name |-> name, type |-> type]},
                  !.seq.tags = id]

DeleteTagNoCascade(d, id) ==
    [d EXCEPT !.tags = {r \in @ : r.id # id}]

\* DELETE FROM tags WHERE id = ?, with ON DELETE CASCADE on file_tags.tag_id
DeleteTagRow(d, id) ==
    [d EXCEPT !.tags = {r \in @ : r.id # id},
              !.file_tags = IF ForeignKeys THEN {r \in @ : r.tag_id # id} ELSE @]

FkNotChecked(d, file_id, tag_id) == TRUE

\* The two FOREIGN KEY constraints of file_tags, checked when a row is written.
FkOk(d, file_id, tag_id) ==
    ForeignKeys =>
        /\ \E f \in d.files : f.id = file_id
        /\ \E t \in d.tags : t.id = tag_id

\* Rows of file_tags that hold the primary key (file_id, tag_id).
PkRows(d, file_id, tag_id) ==
    {r \in d.file_tags : r.file_id = file_id /\ r.tag_id = tag_id}

ConflictAbort == "ABORT"

\* The conflict clause of the INSERT in assign_tag_to_file: INSERT OR REPLACE.
OnConflict == "REPLACE"

PlainInsertFileTag(d, file_id, tag_id, value) ==
    [d EXCEPT !.file_tags =
        @ \cup {[file_id |-> file_id, tag_id |-> tag_id, value |-> value]}]

IgnoreFileTag(d, file_id, tag_id, value) ==
    IF PkRows(d, file_id, tag_id) # {} THEN d
    ELSE [d EXCEPT !.file_tags =
            @ \cup {[file_id |-> file_id, tag_id |-> tag_id, value |-> value]}]

\* INSERT OR REPLACE INTO file_tags: the rows holding the key are deleted, then
\* the new row is inserted.
ReplaceFileTag(d, file_id, tag_id, value) ==
    [d EXCEPT !.file_tags =
        (@ \ PkRows(d, file_id, tag_id))
            \cup {[file_id |-> file_id, tag_id |-> tag_id, value |-> value]}]

DeleteFileTagByTag(d, file_id, tag_id) ==
    [d EXCEPT !.file_tags = {r \in @ : r.tag_id # tag_id}]

\* DELETE FROM file_tags WHERE file_id = ? AND tag_id = ?
DeleteFileTag(d, file_id, tag_id) ==
    [d EXCEPT !.file_tags = @ \ PkRows(d, file_id, tag_id)]

\* ------------------------------------------------------------------ queries

NotFound == <<"None">>

GetFileAnyRow(d, id) ==
    IF d.files = {} THEN NotFound
    ELSE LET r == CHOOSE x \in d.files : TRUE
         IN  <<r.id, r.name, r.file_path, r.metadata>>

\* get_file: SELECT id, name, file_path, metadata FROM files WHERE id = ?; fetchone
GetFile(d, id) ==
    LET rows == {r \in d.files : r.id = id}
    IN  IF rows = {} THEN NotFound
        ELSE LET r == CHOOSE x \in rows : TRUE
             IN  <<r.id, r.name, r.file_path, r.metadata>>

\* get_tags_for_file: tags JOIN file_tags ON tags.id = file_tags.tag_id
\* WHERE file_tags.file_id = ?  (the rows, in no particular order)
GetTagsForFile(d, file_id) ==
    {<<t.id, t.name, t.type, ft.value>> :
        <<t, ft>> \in {p \in d.tags \X d.file_tags :
                          p[1].id = p[2].tag_id /\ p[2].file_id = file_id}}

\* ------------------------------------------------------------------ search

\* The letters SQLite's LIKE folds, among the characters of the model's text.
Fold == ("Q" :> "q") @@ ("P" :> "p") @@ ("T" :> "t") @@ ("X" :> "x") @@ ("Z" :> "z")

\* LIKE compares ASCII letters without regard to case.
Lower(ch) == IF ch \in DOMAIN Fold THEN Fold[ch] ELSE ch

\* x LIKE pat on text: % matches any run of characters, _ any one character,
\* every other character itself up to ASCII case.  No ESCAPE clause is given.
RECURSIVE LikeMatch(_, _)
LikeMatch(pat, x) ==
    IF pat = << >> THEN x = << >>
    ELSE IF Head(pat) = "%"
         THEN \E k \in 0..Len(x) : LikeMatch(Tail(pat), SubSeq(x, k + 1, Len(x)))
    ELSE IF x = << >> THEN FALSE
    ELSE IF Head(pat) = "_" THEN LikeMatch(Tail(pat), Tail(x))
    ELSE Lower(Head(pat)) = Lower(Head(x)) /\ LikeMatch(Tail(pat), Tail(x))

\* A column LIKE ? in a WHERE clause: NULL LIKE ? is NULL, which is not true.
Like(x, pat) == x # NULL /\ LikeMatch(pat, x)

\* pattern = f"%{query}%"
Pattern(query) == <<"%">> \o query \o <<"%">>

\* NULL in an integer column: no row has the id 0.
NullId == 0

\* NULL in the type column.
NullType == "NULL"

\* The columns of file_tags and of tags in a row of a LEFT JOIN that found no
\* partner: all NULL.
NullFt == [file_id |-> NullId, tag_id |-> NullId, value |-> NULL]

NullTag == [id |-> NullId, name |-> NULL, type |-> NullType]

InnerJoinRows(d) ==
    {[f |-> j[1], ft |-> j[2], t |-> j[3]] :
        j \in {k \in d.files \X d.file_tags \X d.tags :
                  k[1].id = k[2].file_id /\ k[3].id = k[2].tag_id}}

\* files f LEFT JOIN file_tags ft ON f.id = ft.file_id
\*         LEFT JOIN tags t ON t.id = ft.tag_id
LeftJoinRows(d) ==
    UNION {LET fts == {ft \in d.file_tags : ft.file_id = f.id}
           IN  IF fts = {} THEN {[f |-> f, ft |-> NullFt, t |-> NullTag]}
               ELSE UNION {LET ts == {t \in d.tags : t.id = ft.tag_id}
                           IN  IF ts = {} THEN {[f |-> f, ft |-> ft, t |-> NullTag]}
                               ELSE {[f |-> f, ft |-> ft, t |-> t] : t \in ts}
                           : ft \in fts}
           : f \in d.files}

\* The select list f.id, f.name, f.file_path, f.metadata of one joined row.
FileColumns(j) == <<j.f.id, j.f.name, j.f.file_path, j.f.metadata>>

\* The select list f.* of one joined row: the columns of files in table order.
FileStar(j) == <<j.f.id, j.f.file_path, j.f.name, j.f.metadata>>

\* The rows a SELECT returns, as a bag: each row of the select list (columns
\* gives it for every joined row) with the number of joined rows that produced it.
Select(rows, columns) ==
    [r \in {columns[j] : j \in rows} |->
        Cardinality({j \in rows : columns[j] = r})]

KeepDuplicates(result) == result

\* SELECT DISTINCT: every row of the result once.
Distinct(result) == [r \in DOMAIN result |-> 1]

\* The WHERE clause of search_all.
SearchAllWhere(j, pattern) ==
    \/ Like(j.f.file_path, pattern)
    \/ Like(j.f.name, pattern)
    \/ Like(j.f.metadata, pattern)
    \/ Like(j.t.name, pattern)
    \/ Like(j.ft.value, pattern)

\* search_all(query)
SearchAll(d, query) ==
    LET rows == {j \in LeftJoinRows(d) : SearchAllWhere(j, Pattern(query))}
    IN  Distinct(Select(rows, [j \in rows |-> FileColumns(j)]))

\* column = ? on text: a comparison with NULL is NULL, which is not true.
SqlEq(x, y) == x # NULL /\ y # NULL /\ x = y

TagValueWhereEither(j, tag_name, value) ==
    SqlEq(j.t.name, tag_name) \/ SqlEq(j.ft.value, value)

\* The WHERE clause of search_by_tag_value.
TagValueWhere(j, tag_name, value) == SqlEq(j.t.name, tag_name) /\ SqlEq(j.ft.value, value)

\* search_by_tag_value(tag_name, value)
SearchByTagValue(d, tag_name, value) ==
    LET rows == {j \in InnerJoinRows(d) : TagValueWhere(j, tag_name, value)}
    IN  Select(rows, [j \in rows |-> FileStar(j)])

\* The WHERE clause of search_by_tag_name.
TagNameWhere(j, tag_name) == SqlEq(j.t.name, tag_name)

SearchByTagNameDistinct(d, tag_name) ==
    LET rows == {j \in InnerJoinRows(d) : TagNameWhere(j, tag_name)}
    IN  Distinct(Select(rows, [j \in rows |-> FileStar(j)]))

\* search_by_tag_name(tag_name): SELECT f.* over the join, one row per
\* association whose tag has the name.
SearchByTagName(d, tag_name) ==
    LET rows == {j \in InnerJoinRows(d) : TagNameWhere(j, tag_name)}
    IN  Select(rows, [j \in rows |-> FileStar(j)])

\* The bytes of the characters tag names are written with.
Code == ("b" :> 98) @@ ("p" :> 112) @@ ("q" :> 113) @@ ("t" :> 116)

\* The BINARY collation of the name column: texts compare byte by byte, and a
\* text sorts before every text it is a proper prefix of.
RECURSIVE TextLeq(_, _)
TextLeq(x, y) ==
    IF x = << >> THEN TRUE
    ELSE IF y = << >> THEN FALSE
    ELSE IF Head(x) = Head(y) THEN TextLeq(Tail(x), Tail(y))
    ELSE Code[Head(x)] < Code[Head(y)]

\* The select list of get_all_tags.
TagColumns(t) == <<t.id, t.name, t.type>>

OrderByRowid(a, b) == a[1] <= b[1]

\* ORDER BY name ASC, on two rows of the select list.
OrderByName(a, b) == TextLeq(a[2], b[2])

\* get_all_tags: SELECT id, name, type FROM tags ORDER BY name ASC; fetchall.
\* Every list the statement may return: rows with equal names come in an
\* order the statement does not fix.
GetAllTags(d) ==
    LET rows == {TagColumns(t) : t \in d.tags}
        n    == Cardinality(rows)
    IN  {s \in [1..n -> rows] :
            /\ \A i, k \in 1..n : i # k => s[i] # s[k]
            /\ \A i, k \in 1..n : i < k => OrderByName(s[i], s[k])}

\* ------------------------------------------------------------------ state

VARIABLES
    db,          \* the committed content of the database file
    writer,      \* the context whose connection holds the write lock, or NoCtx
    wdb,         \* the lock holder's uncommitted view (equal to db when no writer)
    pc,          \* each context's position inside the operation it is running
    args,        \* each context's current (or last) operation and its arguments
    ret,         \* each context's outcome of that operation
    ops,         \* operations begun by the callers so far
    fs,          \* the filesystem: what each path is ("none", "file", "dir")
    monitoring,  \* FileManager.monitoring
    obsAlive,    \* the observer thread has been started and has not exited
    obsStopped,  \* observer.stop() was called on the current observer
    watches,     \* directories scheduled on the current observer
    queue,       \* the current observer's event queue
    events,      \* filesystem moves so far
    conns,       \* the connections opened so far: who opened each, and is it open
    local        \* Database._local: the conn attribute each thread sees (0: none)

vars ==
    <<db, writer, wdb, pc, args, ret, ops, fs, monitoring, obsAlive, obsStopped,
      watches, queue, events, conns, local>>

connVars == <<conns, local>>

storeVars == <<db, writer, wdb>>

observerVars == <<monitoring, obsAlive, obsStopped, watches, queue>>

\* No operation.  Besides the operation's arguments a context keeps its locals
\* here: rows is the fetchall() list verify_all_files walks.
NoArgs ==
    [op |-> "none", file_id |-> 0, tag_id |-> 0, value |-> NULL, path |-> << >>,
     new_path |-> << >>, metadata |-> << >>, name |-> << >>, type |-> "none",
     query |-> << >>, rows |-> << >>]

NoRet == [status |-> "none", val |-> 0]

Running == [status |-> "running", val |-> 0]

\* What connection c reads: its own uncommitted writes, else the committed state.
View(c) == IF writer = c THEN wdb ELSE db

\* A write statement on c's connection: it needs the write lock.
CanWrite(c) == writer \in {NoCtx, c}

WriteStmt(c, d) ==
    /\ CanWrite(c)
    /\ writer' = c
    /\ wdb' = d
    /\ UNCHANGED db

CommitNothing(c) == UNCHANGED storeVars

\* conn.commit(): publishes the connection's writes and releases the lock.
CommitStmt(c) ==
    IF writer = c
    THEN /\ db' = wdb
         /\ wdb' = wdb
         /\ writer' = NoCtx
    ELSE UNCHANGED storeVars

\* conn.rollback(), as `with conn:` does when its body raises.
RollbackStmt(c) ==
    IF writer = c
    THEN /\ wdb' = db
         /\ writer' = NoCtx
         /\ UNCHANGED db
    ELSE UNCHANGED storeVars

\* A caller begins an operation.
Begin(c, a) ==
    /\ c \in Callers
    /\ pc[c] = "idle"
    /\ ops < MaxOps
    /\ ops' = ops + 1
    /\ args' = [args EXCEPT ![c] = a]

Goto(c, label) == pc' = [pc EXCEPT ![c] = label]

Return(c, status, val) ==
    /\ pc' = [pc EXCEPT ![c] = "idle"]
    /\ ret' = [ret EXCEPT ![c] = [status |-> status, val |-> val]]

WatchedDirectoriesUnfiltered(c) ==
    {Dirname(r.file_path) : r \in View(c).files}

\* _get_watched_directories, read through c's connection.
WatchedDirectories(c) ==
    {Dirname(r.file_path) : r \in
        {x \in View(c).files :
            Dirname(x.file_path) # << >> /\ Dirname(x.file_path) \in ExistingDirs}}

\* ------------------------------------------------------------------ connections

\* _local holds no conn attribute for the thread, or holds None.
NoConn == 0

SharedSlot(c) == Owner

\* self._local = threading.local(): the attributes a thread sets on _local are
\* that thread's own.  The slot of _local that thread c reads and writes.
Slot(c) == c

\* sqlite3.connect(self.db_path, check_same_thread=False), then
\* PRAGMA foreign_keys = ON on the new connection.
NewConn(c) == [creator |-> c, open |-> TRUE, foreign_keys |-> ForeignKeys]

\* Every thread has run get_connection and holds the connection it got.
OwnConns ==
    /\ conns = <<NewConn("c1"), NewConn("c2"), NewConn(Watcher)>>
    /\ local = [c \in Ctx |-> IF c = "c1" THEN 1 ELSE IF c = "c2" THEN 2 ELSE 3]

\* A store left by an earlier session that added /a/x twice, created two tags
\* and assigned the first to both files: built with the statements those
\* operations execute.
SeedDb ==
    LET d1 == InsertFile(InsertFile(EmptyDb, PathAX, << >>), PathAX, <<"p">>)
        d2 == InsertLog(InsertTag(d1, <<"t">>, "string"),
                        Action("Created tag", <<1>>, <<<<"t">>>>))
        d3 == InsertLog(InsertTag(d2, <<"p">>, "string"),
                        Action("Created tag", <<2>>, <<<<"p">>>>))
        d4 == InsertLog(ReplaceFileTag(d3, 1, 1, <<"p">>),
                        Action("Assigned tag", <<1, 1>>, <<<<"p">>>>))
        d5 == InsertLog(ReplaceFileTag(d4, 2, 1, <<"q">>),
                        Action("Assigned tag", <<1, 2>>, <<<<"q">>>>))
    IN  d5

InitDbs == {EmptyDb, SeedDb}

\* What a completed create_tag(name, type) leaves: the tag and its log entry.
CreateTagDone(d, name, type) ==
    InsertLog(InsertTag(d, name, type),
              Action("Created tag", <<d.seq.tags + 1>>, <<name>>))

\* What a completed assign_tag_to_file(file_id, tag_id, value) leaves.
AssignTagDone(d, file_id, tag_id, value) ==
    InsertLog(ReplaceFileTag(d, file_id, tag_id, value),
              Action("Assigned tag", <<tag_id, file_id>>, <<value>>))

\* A store left by an earlier session: /a/x described as "q" and carrying the
\* tags "t" and "q", both with value "q"; /b/z with no tag; /a/y described as
\* "p" and carrying "t" with value "p" and "q" with value "q".
SearchDb ==
    LET f1 == InsertFile(EmptyDb, PathAX, <<"q">>)
        f2 == InsertFile(f1, PathBZ, << >>)
        f3 == InsertFile(f2, PathAY, <<"p">>)
        t1 == CreateTagDone(f3, <<"t">>, "string")
        t2 == CreateTagDone(t1, <<"q">>, "string")
        a1 == AssignTagDone(t2, 1, 1, <<"q">>)
        a2 == AssignTagDone(a1, 1, 2, <<"q">>)
        a3 == AssignTagDone(a2, 3, 1, <<"p">>)
        a4 == AssignTagDone(a3, 3, 2, <<"q">>)
    IN  a4

SearchDbs == {SeedDb, SearchDb}

\* A store left by an earlier session that created the tag "t" twice and a tag
\* "q": /a/x carries both tags named "t", /b/z carries the first of them, and
\* /a/y carries only "q".
DupDb ==
    LET f1 == InsertFile(EmptyDb, PathAX, << >>)
        f2 == InsertFile(f1, PathBZ, << >>)
        f3 == InsertFile(f2, PathAY, <<"p">>)
        t1 == CreateTagDone(f3, <<"t">>, "string")
        t2 == CreateTagDone(t1, <<"t">>, "numeric")
        t3 == CreateTagDone(t2, <<"q">>, "string")
        a1 == AssignTagDone(t3, 1, 1, <<"p">>)
        a2 == AssignTagDone(a1, 1, 2, <<"q">>)
        a3 == AssignTagDone(a2, 2, 1, NULL)
        a4 == AssignTagDone(a3, 3, 3, <<"q">>)
    IN  a4

QueryDbs == {SeedDb, SearchDb, DupDb}

\* The names a caller passes to search_by_tag_name.
QueryNames == {<<"t">>, <<"q">>, <<"b">>, <<"T">>}

\* The texts a caller searches for.
Queries == {<< >>, <<"q">>, <<"Q">>, <<"z">>, <<"/", "b">>, <<"_">>, <<"%">>, <<"t", "q">>}

\* The values a caller passes to search_by_tag_value.
QueryValues == {<<"q">>, <<"p">>, <<"Q">>}

\* On disk at first: the file /a/x and the directory /a/d.
InitFs ==
    [p \in FsPaths |-> IF p = PathAX THEN "file" ELSE IF p = PathAD THEN "dir" ELSE "none"]

\* The state once Database.init_schema and FileManager.__init__ (which starts
\* monitoring) have run, on a new store or on one left by an earlier session.
Init ==
    /\ db \in InitDbs
    /\ writer = NoCtx
    /\ wdb = db
    /\ pc = [c \in Ctx |-> "idle"]
    /\ args = [c \in Ctx |-> NoArgs]
    /\ ret = [c \in Ctx |-> NoRet]
    /\ ops = 0
    /\ fs = InitFs
    /\ monitoring = TRUE
    /\ obsAlive = TRUE
    /\ obsStopped = FALSE
    /\ watches = {Dirname(r.file_path) : r \in
                    {x \in db.files : Dirname(x.file_path) # << >>
                                      /\ Dirname(x.file_path) \in ExistingDirs}}
    /\ queue = << >>
    /\ events = 0
    /\ OwnConns

\* ------------------------------------------------------------------ catalog

\* A caller enters an operation: get_connection() and cursor() touch nothing
\* shared, so the call stands before its first statement.
Call(c, a, label) ==
    /\ Begin(c, a)
    /\ Goto(c, label)
    /\ ret' = [ret EXCEPT ![c] = Running]
    /\ UNCHANGED <<fs, events>> /\ UNCHANGED observerVars /\ UNCHANGED storeVars
    /\ UNCHANGED connVars

\* What a statement step leaves alone besides the store, pc and ret.
StmtFrame ==
    UNCHANGED <<args, ops, fs, events>> /\ UNCHANGED observerVars /\ UNCHANGED connVars

AddFileCall(c, path, metadata) ==
    Call(c, [NoArgs EXCEPT !.op = "add_file", !.path = path, !.metadata = metadata],
         "add_insert")

\* add_file: cursor.execute(INSERT INTO files ...)
AddFileInsert(c) ==
    /\ pc[c] = "add_insert"
    /\ WriteStmt(c, InsertFile(View(c), args[c].path, args[c].metadata))
    /\ Goto(c, "add_commit")
    /\ ret' = [ret EXCEPT ![c] = [status |-> "running", val |-> View(c).seq.files + 1]]
    /\ StmtFrame

AddFileCommitWatching(c) ==
    /\ pc[c] = "add_commit"
    /\ CommitStmt(c)
    /\ Return(c, "ok", ret[c].val)
    /\ watches' = IF monitoring /\ Dirname(args[c].path) \in ExistingDirs
                  THEN watches \cup {Dirname(args[c].path)}
                  ELSE watches
    /\ UNCHANGED <<args, ops, fs, events, monitoring, obsAlive, obsStopped, queue>>
    /\ UNCHANGED connVars

\* add_file: conn.commit(); return cursor.lastrowid
AddFileCommit(c) ==
    /\ pc[c] = "add_commit"
    /\ CommitStmt(c)
    /\ Return(c, "ok", ret[c].val)
    /\ StmtFrame

RemoveFileCall(c, id) ==
    Call(c, [NoArgs EXCEPT !.op = "remove_file", !.file_id = id], "remove_delete")

RemoveFileStrict(c) ==
    /\ pc[c] = "remove_delete"
    /\ CanWrite(c)
    /\ IF \E f \in View(c).files : f.id = args[c].file_id
       THEN /\ WriteStmt(c, DeleteFile(View(c), args[c].file_id))
            /\ Goto(c, "remove_commit")
            /\ ret' = [ret EXCEPT ![c] = [status |-> "running", val |-> 1]]
       ELSE /\ RollbackStmt(c)
            /\ Return(c, "KeyError", 0)
    /\ StmtFrame

\* remove_file: cursor.execute(DELETE FROM files WHERE id=?); the cursor's
\* rowcount is the number of file rows deleted.
RemoveFileDelete(c) ==
    /\ pc[c] = "remove_delete"
    /\ WriteStmt(c, DeleteFile(View(c), args[c].file_id))
    /\ Goto(c, "remove_commit")
    /\ ret' = [ret EXCEPT ![c] =
                [status |-> "running",
                 val |-> Cardinality({f \in View(c).files : f.id = args[c].file_id})]]
    /\ StmtFrame

\* remove_file: conn.commit()
RemoveFileCommit(c) ==
    /\ pc[c] = "remove_commit"
    /\ CommitStmt(c)
    /\ Return(c, "ok", ret[c].val)
    /\ StmtFrame

UpdateFilePathCall(c, old, new) ==
    Call(c, [NoArgs EXCEPT !.op = "update_file_path", !.path = old, !.new_path = new],
         "ufp_update")

\* update_file_path: cursor.execute(UPDATE files SET file_path, name WHERE file_path)
UpdateFilePathUpdate(c) ==
    /\ pc[c] = "ufp_update"
    /\ WriteStmt(c, UpdatePath(View(c), args[c].path, args[c].new_path))
    /\ Goto(c, "ufp_commit")
    /\ UNCHANGED ret
    /\ StmtFrame

\* update_file_path: conn.commit() after the UPDATE
UpdateFilePathCommit(c) ==
    /\ pc[c] = "ufp_commit"
    /\ CommitStmt(c)
    /\ Goto(c, "fm_log_insert")
    /\ UNCHANGED ret
    /\ StmtFrame

\* FileManager.log_action: conn.execute(INSERT INTO logs ...), called by
\* update_file_path with "Updated file path from {old_path} to {new_path}"
FmLogInsert(c) ==
    /\ pc[c] = "fm_log_insert"
    /\ WriteStmt(c, InsertLog(View(c),
            Action("Updated file path", << >>, <<args[c].path, args[c].new_path>>)))
    /\ Goto(c, "fm_log_commit")
    /\ UNCHANGED ret
    /\ StmtFrame

\* FileManager.log_action: conn.commit(); update_file_path returns
FmLogCommit(c) ==
    /\ pc[c] = "fm_log_commit"
    /\ CommitStmt(c)
    /\ Return(c, "ok", 0)
    /\ StmtFrame

\* SELECT id, file_path FROM files; fetchall(): the rows in rowid order.
RECURSIVE FetchAll(_)
FetchAll(rows) ==
    IF rows = {} THEN << >>
    ELSE LET f == CHOOSE x \in rows : \A y \in rows : x.id <= y.id
         IN  <<[id |-> f.id, file_path |-> f.file_path]>> \o FetchAll(rows \ {f})

VerifyAllFilesCall(c) ==
    Call(c, [NoArgs EXCEPT !.op = "verify_all_files",
                           !.rows = FetchAll(View(c).files)],
         "vf_exists")

\* What a step of verify_all_files leaves alone besides pc, args, ret, the store.
VerifyFrame ==
    UNCHANGED <<ops, fs, events>> /\ UNCHANGED observerVars /\ UNCHANGED connVars

\* verify_all_files: the next row of the loop, if any: os.path.exists(file_path)
VerifyExists(c) ==
    /\ pc[c] = "vf_exists"
    /\ IF args[c].rows = << >>
       THEN /\ Return(c, "ok", 0)
            /\ UNCHANGED args
       ELSE IF Exists(fs, Head(args[c].rows).file_path)
       THEN /\ args' = [args EXCEPT ![c].rows = Tail(@)]
            /\ UNCHANGED <<pc, ret>>
       ELSE /\ Goto(c, "vf_candidate")
            /\ UNCHANGED <<args, ret>>
    /\ UNCHANGED storeVars
    /\ VerifyFrame

\* The path verify_all_files looks for: the record's file name in the
\* record's directory.
CandidatePath(file_path) == Join(Dirname(file_path), Basename(file_path))

CandidateAssumed(fsys, file_path) == TRUE

\* if os.path.exists(os.path.join(directory, filename))
CandidateExists(fsys, file_path) == Exists(fsys, CandidatePath(file_path))

\* verify_all_files: the row's path does not exist; look for the candidate.
VerifyCandidate(c) ==
    /\ pc[c] = "vf_candidate"
    /\ IF CandidateExists(fs, Head(args[c].rows).file_path)
       THEN /\ Goto(c, "vf_update")
            /\ UNCHANGED args
       ELSE /\ Goto(c, "vf_exists")
            /\ args' = [args EXCEPT ![c].rows = Tail(@)]
    /\ UNCHANGED ret
    /\ UNCHANGED storeVars
    /\ VerifyFrame

\* verify_all_files: cursor.execute(UPDATE files SET file_path=? WHERE id=?)
VerifyUpdate(c) ==
    /\ pc[c] = "vf_update"
    /\ WriteStmt(c, UpdatePathById(View(c), Head(args[c].rows).id,
                                   CandidatePath(Head(args[c].rows).file_path)))
    /\ Goto(c, "vf_commit")
    /\ UNCHANGED <<args, ret>>
    /\ VerifyFrame

\* verify_all_files: conn.commit(); on to the next row
VerifyCommit(c) ==
    /\ pc[c] = "vf_commit"
    /\ CommitStmt(c)
    /\ Goto(c, "vf_exists")
    /\ args' = [args EXCEPT ![c].rows = Tail(@)]
    /\ UNCHANGED ret
    /\ VerifyFrame

\* ------------------------------------------------------------------ tag store

CreateTagCall(c, name, type) ==
    Call(c, [NoArgs EXCEPT !.op = "create_tag", !.name = name, !.type = type],
         "ct_insert")

\* create_tag: cursor.execute(INSERT INTO tags ...); tag_id = cursor.lastrowid.
\* A kind outside the CHECK list makes the statement raise IntegrityError, which
\* create_tag does not catch: the transaction sqlite3 opened for the INSERT stays
\* open on the caller's connection, with the write lock.
CreateTagInsert(c) ==
    /\ pc[c] = "ct_insert"
    /\ IF TagCheckOk(args[c].type)
       THEN /\ WriteStmt(c, InsertTag(View(c), args[c].name, args[c].type))
            /\ Goto(c, "ct_commit")
            /\ ret' = [ret EXCEPT ![c] =
                        [status |-> "running", val |-> View(c).seq.tags + 1]]
       ELSE /\ WriteStmt(c, View(c))
            /\ Return(c, "CHECK", 0)
    /\ StmtFrame

\* create_tag: conn.commit()
CreateTagCommit(c) ==
    /\ pc[c] = "ct_commit"
    /\ CommitStmt(c)
    /\ Goto(c, "tm_log_insert")
    /\ UNCHANGED ret
    /\ StmtFrame

DeleteTagCall(c, id) ==
    Call(c, [NoArgs EXCEPT !.op = "delete_tag", !.tag_id = id], "dt_delete")

DeleteTagStrict(c) ==
    /\ pc[c] = "dt_delete"
    /\ CanWrite(c)
    /\ IF \E t \in View(c).tags : t.id = args[c].tag_id
       THEN /\ WriteStmt(c, DeleteTagRow(View(c), args[c].tag_id))
            /\ Goto(c, "tm_log_insert")
            /\ UNCHANGED ret
       ELSE /\ RollbackStmt(c)
            /\ Return(c, "KeyError", 0)
    /\ StmtFrame

\* delete_tag: with conn: conn.execute(DELETE FROM tags WHERE id = ?)
DeleteTagDelete(c) ==
    /\ pc[c] = "dt_delete"
    /\ WriteStmt(c, DeleteTagRow(View(c), args[c].tag_id))
    /\ Goto(c, "tm_log_insert")
    /\ UNCHANGED ret
    /\ StmtFrame

AssignTagCall(c, file_id, tag_id, value) ==
    Call(c, [NoArgs EXCEPT !.op = "assign_tag_to_file", !.file_id = file_id,
                           !.tag_id = tag_id, !.value = value],
         "as_insert")

\* assign_tag_to_file: with conn: conn.execute(INSERT OR REPLACE INTO file_tags).
\* A constraint failure raises IntegrityError out of the with block, which rolls
\* the connection's transaction back before the exception reaches the caller.
AssignTagInsert(c) ==
    /\ pc[c] = "as_insert"
    /\ CanWrite(c)
    /\ IF ~FkOk(View(c), args[c].file_id, args[c].tag_id)
       THEN /\ RollbackStmt(c)
            /\ Return(c, "FOREIGN KEY", 0)
       ELSE IF OnConflict # "REPLACE"
               /\ PkRows(View(c), args[c].file_id, args[c].tag_id) # {}
       THEN /\ RollbackStmt(c)
            /\ Return(c, "UNIQUE", 0)
       ELSE /\ WriteStmt(c, ReplaceFileTag(View(c), args[c].file_id, args[c].tag_id,
                                           args[c].value))
            /\ Goto(c, "tm_log_insert")
            /\ UNCHANGED ret
    /\ StmtFrame

RemoveTagCall(c, file_id, tag_id) ==
    Call(c, [NoArgs EXCEPT !.op = "remove_tag_from_file", !.file_id = file_id,
                           !.tag_id = tag_id],
         "rt_delete")

\* remove_tag_from_file: with conn: conn.execute(DELETE FROM file_tags WHERE ...)
RemoveTagDelete(c) ==
    /\ pc[c] = "rt_delete"
    /\ WriteStmt(c, DeleteFileTag(View(c), args[c].file_id, args[c].tag_id))
    /\ Goto(c, "tm_log_insert")
    /\ UNCHANGED ret
    /\ StmtFrame

\* The f-string each tag operation passes to TagManager.log_action.
TmLogText(a, r) ==
    CASE a.op = "create_tag" -> Action("Created tag", <<r.val>>, <<a.name>>)
      [] a.op = "delete_tag" -> Action("Deleted tag", <<a.tag_id>>, << >>)
      [] a.op = "assign_tag_to_file" ->
            Action("Assigned tag", <<a.tag_id, a.file_id>>, <<a.value>>)
      [] OTHER -> Action("Removed tag", <<a.tag_id, a.file_id>>, << >>)

\* TagManager.log_action: conn.execute(INSERT INTO logs ...)
TmLogInsert(c) ==
    /\ pc[c] = "tm_log_insert"
    /\ WriteStmt(c, InsertLog(View(c), TmLogText(args[c], ret[c])))
    /\ Goto(c, "tm_log_commit")
    /\ UNCHANGED ret
    /\ StmtFrame

\* TagManager.log_action: conn.commit(); then the operation returns (the commit
\* `with conn:` makes on leaving its block finds nothing left to commit).
TmLogCommit(c) ==
    /\ pc[c] = "tm_log_commit"
    /\ CommitStmt(c)
    /\ Return(c, "ok", ret[c].val)
    /\ StmtFrame

\* ------------------------------------------------------------------ reconciler

StartUnguarded(c) ==
    /\ Begin(c, [NoArgs EXCEPT !.op = "start_file_monitoring"])
    /\ watches' = WatchedDirectories(c)
    /\ queue' = << >>
    /\ obsAlive' = TRUE
    /\ obsStopped' = FALSE
    /\ monitoring' = TRUE
    /\ pc' = [pc EXCEPT ![c] = "idle", ![Watcher] = "idle"]
    /\ ret' = [ret EXCEPT ![c] = [status |-> "ok", val |-> 0]]
    /\ UNCHANGED <<fs, events>> /\ UNCHANGED storeVars /\ UNCHANGED connVars

\* start_file_monitoring: a new Observer, one non-recursive watch per directory
\* of _get_watched_directories, observer.start(), monitoring = True.
StartFileMonitoring(c) ==
    /\ Begin(c, [NoArgs EXCEPT !.op = "start_file_monitoring"])
    /\ IF ~monitoring
       THEN /\ watches' = WatchedDirectories(c)
            /\ queue' = << >>
            /\ obsAlive' = TRUE
            /\ obsStopped' = FALSE
            /\ monitoring' = TRUE
            /\ pc' = [pc EXCEPT ![c] = "idle", ![Watcher] = "idle"]
       ELSE /\ UNCHANGED observerVars
            /\ pc' = [pc EXCEPT ![c] = "idle"]
    /\ ret' = [ret EXCEPT ![c] = [status |-> "ok", val |-> 0]]
    /\ UNCHANGED <<fs, events>> /\ UNCHANGED storeVars /\ UNCHANGED connVars

\* stop_file_monitoring: if self.monitoring and self.observer: observer.stop()
StopFileMonitoring(c) ==
    /\ Begin(c, [NoArgs EXCEPT !.op = "stop_file_monitoring"])
    /\ IF monitoring
       THEN /\ obsStopped' = TRUE
            /\ Goto(c, "stop_join")
            /\ ret' = [ret EXCEPT ![c] = Running]
       ELSE /\ UNCHANGED obsStopped
            /\ Return(c, "ok", 0)
    /\ UNCHANGED <<monitoring, obsAlive, watches, queue, fs, events>>
    /\ UNCHANGED connVars
    /\ UNCHANGED storeVars

JoinNoWait == TRUE

\* observer.join() returns once the observer thread has exited.
JoinReturns == ~obsAlive

\* stop_file_monitoring: observer.join(); monitoring = False
StopJoin(c) ==
    /\ pc[c] = "stop_join"
    /\ JoinReturns
    /\ monitoring' = FALSE
    /\ Return(c, "ok", 0)
    /\ UNCHANGED <<args, ops, obsAlive, obsStopped, watches, queue, fs, events>>
    /\ UNCHANGED connVars
    /\ UNCHANGED storeVars

\* A file or directory is moved on disk.  Inside a watched directory of a
\* running observer the move is queued as a moved event.
FsMove(old, new) ==
    /\ events < MaxEvents
    /\ old # new
    /\ fs[old] # "none"
    /\ fs[new] = "none"
    /\ Dirname(new) = << >> \/ Dirname(new) \in ExistingDirs
    /\ fs' = [fs EXCEPT ![old] = "none", ![new] = fs[old]]
    /\ events' = events + 1
    /\ IF obsAlive /\ ~obsStopped /\ Dirname(old) \in watches
       THEN queue' = Append(queue, [src_path |-> old, dest_path |-> new,
                                    is_directory |-> (fs[old] = "dir")])
       ELSE UNCHANGED queue
    /\ UNCHANGED <<pc, args, ret, ops, monitoring, obsAlive, obsStopped, watches>>
    /\ UNCHANGED connVars
    /\ UNCHANGED storeVars

OnMovedAnyEntry(c) ==
    /\ obsAlive
    /\ pc[c] = "idle"
    /\ queue # << >>
    /\ queue' = Tail(queue)
    /\ args' = [args EXCEPT ![c] =
                  [NoArgs EXCEPT !.op = "update_file_path",
                                 !.path = Head(queue).src_path,
                                 !.new_path = Head(queue).dest_path]]
    /\ ret' = [ret EXCEPT ![c] = Running]
    /\ Goto(c, "ufp_update")
    /\ UNCHANGED <<ops, fs, events, monitoring, obsAlive, obsStopped, watches>>
    /\ UNCHANGED connVars
    /\ UNCHANGED storeVars

\* The observer thread takes the next event and calls FileChangeHandler.on_moved:
\* for a non-directory entry it calls update_file_path(src_path, dest_path).
OnMoved(c) ==
    /\ obsAlive
    /\ pc[c] = "idle"
    /\ queue # << >>
    /\ queue' = Tail(queue)
    /\ LET e == Head(queue)
       IN  IF ~e.is_directory
           THEN /\ args' = [args EXCEPT ![c] =
                              [NoArgs EXCEPT !.op = "update_file_path",
                                             !.path = e.src_path,
                                             !.new_path = e.dest_path]]
                /\ ret' = [ret EXCEPT ![c] = Running]
                /\ Goto(c, "ufp_update")
           ELSE UNCHANGED <<args, ret, pc>>
    /\ UNCHANGED <<ops, fs, events, monitoring, obsAlive, obsStopped, watches>>
    /\ UNCHANGED connVars
    /\ UNCHANGED storeVars

\* The observer thread leaves its loop once stop() was called and no callback
\* is running.
ObserverExit ==
    /\ obsAlive
    /\ obsStopped
    /\ pc[Watcher] = "idle"
    /\ obsAlive' = FALSE
    /\ UNCHANGED <<pc, args, ret, ops, fs, events, monitoring, obsStopped, watches, queue>>
    /\ UNCHANGED connVars
    /\ UNCHANGED storeVars

\* ------------------------------------------------------------------ search engine

\* A query: one SELECT on the caller's connection, whose rows are returned.
Query(c, a, result) ==
    /\ Begin(c, a)
    /\ ret' = [ret EXCEPT ![c] = [status |-> "ok", val |-> result]]
    /\ UNCHANGED <<pc, fs, events>> /\ UNCHANGED observerVars /\ UNCHANGED storeVars
    /\ UNCHANGED connVars

SearchAllCall(c, query) ==
    Query(c, [NoArgs EXCEPT !.op = "search_all", !.query = query],
          SearchAll(View(c), query))

SearchByTagValueCall(c, tag_name, value) ==
    Query(c, [NoArgs EXCEPT !.op = "search_by_tag_value", !.name = tag_name,
                            !.value = value],
          SearchByTagValue(View(c), tag_name, value))

GetAllTagsCall(c) ==
    \E result \in GetAllTags(View(c)) :
        Query(c, [NoArgs EXCEPT !.op = "get_all_tags"], result)

GetFileCall(c, file_id) ==
    Query(c, [NoArgs EXCEPT !.op = "get_file", !.file_id = file_id],
          GetFile(View(c), file_id))

SearchByTagNameCall(c, tag_name) ==
    Query(c, [NoArgs EXCEPT !.op = "search_by_tag_name", !.name = tag_name],
          SearchByTagName(View(c), tag_name))

\* ------------------------------------------------------------------ front ends

\* The tag name both front ends store the values of content analysis under.
ContentAnalysis ==
    <<"c", "o", "n", "t", "e", "n", "t", "_", "a", "n", "a", "l", "y", "s", "i", "s">>

\* The lists analyze_text_content / analyze_code_content may return.
TagLists == {<< >>, <<<<"p">>, <<"q">>>>, <<<<"q">>, <<"p">>, <<"t">>>>}

\* The tag name the front ends store the file type under.
FileType == <<"f", "i", "l", "e", "_", "t", "y", "p", "e">>

\* What get_file_type_tag may return: nothing, or a value.
FileTypeTags == {<< >>, <<"p">>}

\* if file_type_tag: tag_id = create_tag("file_type", "string");
\* assign_tag_to_file(file_id, tag_id, file_type_tag)
TagFileType(d, file_id, file_type_tag) ==
    IF file_type_tag = << >> THEN d
    ELSE AssignTagDone(CreateTagDone(d, FileType, "string"),
                       file_id, d.seq.tags + 1, file_type_tag)

\* A store left by an earlier session in which the command line analysed
\* /a/x twice: two tags named content_analysis, each assigned to the file.
FrontDb ==
    LET f1 == InsertFile(EmptyDb, PathAX, << >>)
        t1 == CreateTagDone(f1, ContentAnalysis, "string")
        a1 == AssignTagDone(t1, 1, 1, <<"p">>)
        t2 == CreateTagDone(a1, ContentAnalysis, "string")
        a2 == AssignTagDone(t2, 1, 2, <<"q">>)
    IN  a2

FrontDbs == {EmptyDb, SeedDb, FrontDb}

\* A call of the library that runs to its end with no other writer: the store
\* it leaves is committed.
CallDone(c, d) ==
    /\ CanWrite(c)
    /\ db' = d
    /\ wdb' = d
    /\ writer' = NoCtx

\* What a step of a front end leaves alone besides pc, args, ret, the store.
FrontFrame ==
    UNCHANGED <<ops, fs, events>> /\ UNCHANGED observerVars /\ UNCHANGED connVars

\* The command line's add-file command; tags is what content analysis will
\* return for the file.
CliAddFileCall(c, path, tags) ==
    Call(c, [NoArgs EXCEPT !.op = "cli_add_file", !.path = path, !.rows = tags],
         "fe_add_file")

\* The window's add_file; tags is what the ContentAnalysisWorker will emit.
GuiAddFileCall(c, path, tags) ==
    Call(c, [NoArgs EXCEPT !.op = "gui_add_file", !.path = path, !.rows = tags],
         "fe_add_file")

\* The command line's auto-tag command on the file of an id.
CliAutoTagCall(c, file_id, tags) ==
    Call(c, [NoArgs EXCEPT !.op = "cli_auto_tag", !.file_id = file_id, !.rows = tags],
         "fe_get_file")

\* file_id = file_mgr.add_file(path, metadata); the command line tags the
\* file type and goes on to content analysis, the window starts its workers
\* and returns to the user.
FrontAddFile(c) ==
    /\ pc[c] = "fe_add_file"
    /\ LET added == InsertFile(View(c), args[c].path, args[c].metadata)
       IN  IF args[c].op = "gui_add_file"
           THEN CallDone(c, added)
           ELSE \E v \in FileTypeTags :
                    CallDone(c, TagFileType(added, View(c).seq.files + 1, v))
    /\ args' = [args EXCEPT ![c].file_id = View(c).seq.files + 1]
    /\ IF args[c].op = "gui_add_file"
       THEN Goto(c, "gui_pending") /\ UNCHANGED ret
       ELSE IF args[c].rows = << >>
       THEN Return(c, "ok", 0)
       ELSE Goto(c, "fe_create_tag") /\ UNCHANGED ret
    /\ FrontFrame

\* auto-tag: file_info = file_mgr.get_file(args.file_id); if not file_info:
\* return; else the file type is tagged if asked for, and content analysis
\* follows.
FrontGetFile(c) ==
    /\ pc[c] = "fe_get_file"
    /\ IF GetFile(View(c), args[c].file_id) = NotFound
       THEN /\ Return(c, "not found", 0)
            /\ UNCHANGED storeVars
       ELSE /\ \E v \in FileTypeTags :
                  CallDone(c, TagFileType(View(c), args[c].file_id, v))
            /\ IF args[c].rows = << >>
               THEN Return(c, "ok", 0)
               ELSE Goto(c, "fe_create_tag") /\ UNCHANGED ret
    /\ UNCHANGED args
    /\ FrontFrame

\* if theme_tags: tag_id = tag_mgr.create_tag("content_analysis", "string")
FrontCreateTag(c) ==
    /\ pc[c] = "fe_create_tag"
    /\ CallDone(c, CreateTagDone(View(c), ContentAnalysis, "string"))
    /\ args' = [args EXCEPT ![c].tag_id = View(c).seq.tags + 1]
    /\ Goto(c, "fe_assign")
    /\ UNCHANGED ret
    /\ FrontFrame

\* The user removes the file before the worker's signal arrives:
\* remove_selected_file calls remove_file(file_id).
GuiRemoveSelectedFile(c) ==
    /\ pc[c] = "gui_pending"
    /\ \E f \in View(c).files : f.id = args[c].file_id
    /\ CallDone(c, DeleteFile(View(c), args[c].file_id))
    /\ UNCHANGED <<pc, args, ret>>
    /\ FrontFrame

\* on_content_analysis_complete(file_id, tags): if tags, _get_or_create_tag:
\* SELECT id FROM tags WHERE name = ?; fetchone() gives one of the rows, which
\* one the statement does not fix; with no row, create_tag.
OnContentAnalysisComplete(c) ==
    /\ pc[c] = "gui_pending"
    /\ IF args[c].rows = << >>
       THEN /\ Return(c, "ok", 0)
            /\ UNCHANGED args
            /\ UNCHANGED storeVars
       ELSE LET ids == {t.id : t \in {x \in View(c).tags : x.name = ContentAnalysis}}
            IN  /\ IF ids # {}
                   THEN /\ \E id \in ids : args' = [args EXCEPT ![c].tag_id = id]
                        /\ UNCHANGED storeVars
                   ELSE /\ CallDone(c, CreateTagDone(View(c), ContentAnalysis, "string"))
                        /\ args' = [args EXCEPT ![c].tag_id = View(c).seq.tags + 1]
                /\ Goto(c, "fe_assign")
                /\ UNCHANGED ret
    /\ FrontFrame

\* for tag in tags: assign_tag_to_file(file_id, tag_id, tag).  ret.val counts
\* the values assigned so far.  The IntegrityError of a file or tag that is no
\* longer there ends the loop (the command line prints it).
FrontAssign(c) ==
    /\ pc[c] = "fe_assign"
    /\ LET i == ret[c].val
       IN  IF i = Len(args[c].rows)
           THEN /\ Return(c, "ok", i)
                /\ UNCHANGED storeVars
           ELSE IF ~FkOk(View(c), args[c].file_id, args[c].tag_id)
           THEN /\ RollbackStmt(c)
                /\ Return(c, "FOREIGN KEY", i)
           ELSE /\ CallDone(c, AssignTagDone(View(c), args[c].file_id, args[c].tag_id,
                                             args[c].rows[i + 1]))
                /\ ret' = [ret EXCEPT ![c].val = i + 1]
                /\ UNCHANGED pc
    /\ UNCHANGED args
    /\ FrontFrame

\* ------------------------------------------------------------------ system

\* The catalog and tag-store operations, called from context c.
CallerOps(c) ==
    \/ \E p \in AddPaths, m \in Metadatas : AddFileCall(c, p, m)
    \/ AddFileInsert(c)
    \/ AddFileCommit(c)
    \/ \E id \in FileArgIds : RemoveFileCall(c, id)
    \/ RemoveFileDelete(c)
    \/ RemoveFileCommit(c)
    \/ \E m \in MovePairs : UpdateFilePathCall(c, m[1], m[2])
    \/ UpdateFilePathUpdate(c)
    \/ UpdateFilePathCommit(c)
    \/ FmLogInsert(c)
    \/ FmLogCommit(c)
    \/ \E n \in TagNames, k \in KindInputs : CreateTagCall(c, n, k)
    \/ CreateTagInsert(c)
    \/ CreateTagCommit(c)
    \/ \E id \in TagArgIds : DeleteTagCall(c, id)
    \/ DeleteTagDelete(c)
    \/ \E f \in FileArgIds, t \in TagArgIds, v \in OptValues : AssignTagCall(c, f, t, v)
    \/ AssignTagInsert(c)
    \/ \E f \in FileArgIds, t \in TagArgIds : RemoveTagCall(c, f, t)
    \/ RemoveTagDelete(c)
    \/ TmLogInsert(c)
    \/ TmLogCommit(c)

\* Caller threads on one store, each through its own connection.
Next == \E c \in Callers : CallerOps(c)

Spec == Init /\ [][Next]_vars

\* The catalog operations of the owner thread, next to the observer.
OwnerOps(c) ==
    \/ \E p \in AddPaths, m \in Metadatas : AddFileCall(c, p, m)
    \/ AddFileInsert(c)
    \/ AddFileCommit(c)
    \/ \E id \in FileArgIds : RemoveFileCall(c, id)
    \/ RemoveFileDelete(c)
    \/ RemoveFileCommit(c)
    \/ StartFileMonitoring(c)
    \/ StopFileMonitoring(c)
    \/ StopJoin(c)

\* The observer thread.
WatcherOps(c) ==
    \/ OnMoved(c)
    \/ UpdateFilePathUpdate(c)
    \/ UpdateFilePathCommit(c)
    \/ FmLogInsert(c)
    \/ FmLogCommit(c)
    \/ ObserverExit

\* The owner thread, the observer thread and the filesystem.
NextWatch ==
    \/ OwnerOps(Owner)
    \/ WatcherOps(Watcher)
    \/ \E old \in Paths, new \in Paths : FsMove(old, new)

SpecWatch == Init /\ [][NextWatch]_vars

\* A store left by an earlier session that added /a//x and /b/z.
VerifyDb == InsertFile(InsertFile(EmptyDb, PathAXX, << >>), PathBZ, << >>)

VerifyDbs == {SeedDb, VerifyDb}

\* The disk when verify_all_files is called: /a/x in place; /a/x renamed to
\* /a/X; /a/x moved to /a/y.
VerifyFss ==
    {InitFs,
     [InitFs EXCEPT ![PathAX] = "none", ![PathAXUpper] = "file"],
     [InitFs EXCEPT ![PathAX] = "none", ![PathAY] = "file"]}

\* The state once the application has started on a store an earlier session
\* left, the files having moved while it was not running.
InitVerify ==
    /\ db \in VerifyDbs
    /\ writer = NoCtx
    /\ wdb = db
    /\ pc = [c \in Ctx |-> "idle"]
    /\ args = [c \in Ctx |-> NoArgs]
    /\ ret = [c \in Ctx |-> NoRet]
    /\ ops = 0
    /\ fs \in VerifyFss
    /\ monitoring = TRUE
    /\ obsAlive = TRUE
    /\ obsStopped = FALSE
    /\ watches = {Dirname(r.file_path) : r \in
                    {x \in db.files : Dirname(x.file_path) # << >>
                                      /\ Dirname(x.file_path) \in ExistingDirs}}
    /\ queue = << >>
    /\ events = 0
    /\ OwnConns

\* verify_all_files in the owner's thread.
VerifyOps(c) ==
    \/ VerifyAllFilesCall(c)
    \/ VerifyExists(c)
    \/ VerifyCandidate(c)
    \/ VerifyUpdate(c)
    \/ VerifyCommit(c)

\* The owner's verify_all_files, the observer thread's callbacks and the
\* filesystem.
NextVerify ==
    \/ VerifyOps(Owner)
    \/ OnMoved(Watcher)
    \/ UpdateFilePathUpdate(Watcher)
    \/ UpdateFilePathCommit(Watcher)
    \/ FmLogInsert(Watcher)
    \/ FmLogCommit(Watcher)
    \/ \E old \in Paths, new \in Paths : FsMove(old, new)

SpecVerify == InitVerify /\ [][NextVerify]_vars

\* The state once the application has started on a store d0, new or left by an
\* earlier session, and the owner has since added nothing, the file /a/x or
\* the path /c/x: the observer holds the watches start_file_monitoring
\* scheduled for d0.
InitStart ==
    \E d0 \in InitDbs :
        /\ db \in {d0, InsertFile(d0, PathAX, << >>), InsertFile(d0, PathCX, << >>)}
        /\ writer = NoCtx
        /\ wdb = db
        /\ pc = [c \in Ctx |-> "idle"]
        /\ args = [c \in Ctx |-> NoArgs]
        /\ ret = [c \in Ctx |-> NoRet]
        /\ ops = 0
        /\ fs = InitFs
        /\ monitoring = TRUE
        /\ obsAlive = TRUE
        /\ obsStopped = FALSE
        /\ watches = {Dirname(r.file_path) : r \in
                        {x \in d0.files : Dirname(x.file_path) # << >>
                                          /\ Dirname(x.file_path) \in ExistingDirs}}
        /\ queue = << >>
        /\ events = 0
        /\ OwnConns

\* The owner adds files and stops and starts the monitor.
StartOps(c) ==
    \/ \E p \in StartPaths : AddFileCall(c, p, << >>)
    \/ AddFileInsert(c)
    \/ AddFileCommit(c)
    \/ StartFileMonitoring(c)
    \/ StopFileMonitoring(c)
    \/ StopJoin(c)

\* The owner thread, the observer thread and the filesystem.
NextStart ==
    \/ StartOps(Owner)
    \/ WatcherOps(Watcher)
    \/ \E old \in Paths, new \in Paths : FsMove(old, new)

SpecStart == InitStart /\ [][NextStart]_vars

\* get_connection: the thread's connection, opened now if _local holds none.
GetConnection(c) ==
    /\ pc[c] = "idle"
    /\ IF local[Slot(c)] = NoConn
       THEN /\ Len(conns) < MaxConns
            /\ conns' = Append(conns, NewConn(c))
            /\ local' = [local EXCEPT ![Slot(c)] = Len(conns) + 1]
       ELSE UNCHANGED connVars
    /\ args' = [args EXCEPT ![c] = [NoArgs EXCEPT !.op = "get_connection"]]
    /\ ret' = [ret EXCEPT ![c] = [status |-> "ok", val |-> local'[Slot(c)]]]
    /\ UNCHANGED <<pc, ops, fs, events>> /\ UNCHANGED observerVars /\ UNCHANGED storeVars

\* connect: a new connection, put in _local.conn whatever it held.
Connect(c) ==
    /\ pc[c] = "idle"
    /\ Len(conns) < MaxConns
    /\ conns' = Append(conns, NewConn(c))
    /\ local' = [local EXCEPT ![Slot(c)] = Len(conns) + 1]
    /\ args' = [args EXCEPT ![c] = [NoArgs EXCEPT !.op = "connect"]]
    /\ ret' = [ret EXCEPT ![c] = [status |-> "ok", val |-> 0]]
    /\ UNCHANGED <<pc, ops, fs, events>> /\ UNCHANGED observerVars /\ UNCHANGED storeVars

\* close: if _local holds a connection, commit() and close() it and set
\* _local.conn to None.
Close(c) ==
    /\ pc[c] = "idle"
    /\ IF local[Slot(c)] # NoConn
       THEN /\ CommitStmt(c)
            /\ conns' = [conns EXCEPT ![local[Slot(c)]].open = FALSE]
            /\ local' = [local EXCEPT ![Slot(c)] = NoConn]
       ELSE UNCHANGED connVars /\ UNCHANGED storeVars
    /\ args' = [args EXCEPT ![c] = [NoArgs EXCEPT !.op = "close"]]
    /\ ret' = [ret EXCEPT ![c] = [status |-> "ok", val |-> 0]]
    /\ UNCHANGED <<pc, ops, fs, events>> /\ UNCHANGED observerVars

\* The state once the main thread has run db.connect(): its connection is the
\* only one, and no other thread has asked for one.
InitConn ==
    /\ db \in InitDbs
    /\ writer = NoCtx
    /\ wdb = db
    /\ pc = [c \in Ctx |-> "idle"]
    /\ args = [c \in Ctx |-> NoArgs]
    /\ ret = [c \in Ctx |-> NoRet]
    /\ ops = 0
    /\ fs = InitFs
    /\ monitoring = TRUE
    /\ obsAlive = TRUE
    /\ obsStopped = FALSE
    /\ watches = {Dirname(r.file_path) : r \in
                    {x \in db.files : Dirname(x.file_path) # << >>
                                      /\ Dirname(x.file_path) \in ExistingDirs}}
    /\ queue = << >>
    /\ events = 0
    /\ conns = <<NewConn(Owner)>>
    /\ local = [c \in Ctx |-> IF c = Owner THEN 1 ELSE NoConn]

\* What a thread does with the Database object's connections.
ConnOps(c) ==
    \/ GetConnection(c)
    \/ Connect(c)
    \/ Close(c)

\* The main thread, a second caller thread and the observer thread.
NextConn == \E c \in Ctx : ConnOps(c)

SpecConn == InitConn /\ [][NextConn]_vars

\* ------------------------------------------------------------------ schema

\* Where a thread stands in init_schema: before the CREATE of table i, and
\* before the commit that leaving `with conn:` makes.
SchemaLabel(i) ==
    IF i > Len(SchemaTables) THEN "is_commit" ELSE "is_create_" \o SchemaTables[i]

InitSchemaCall(c) ==
    Call(c, [NoArgs EXCEPT !.op = "init_schema"], SchemaLabel(1))

\* init_schema: conn.execute(CREATE TABLE IF NOT EXISTS ...), statement i.  A
\* statement that finds its table reads the schema only.  One that creates
\* the table runs in the connection's open transaction if it has one; sqlite3
\* opens none for it, so otherwise the statement takes the write lock and
\* commits by itself.
InitSchemaCreate(c, i) ==
    /\ pc[c] = SchemaLabel(i)
    /\ LET d == CreateTableIfNotExists(View(c), SchemaTables[i])
       IN  IF d = View(c) THEN UNCHANGED storeVars
           ELSE IF writer = c THEN WriteStmt(c, d)
           ELSE /\ writer = NoCtx
                /\ db' = d
                /\ wdb' = d
                /\ UNCHANGED writer
    /\ Goto(c, SchemaLabel(i + 1))
    /\ UNCHANGED ret
    /\ StmtFrame

\* init_schema: the commit on leaving `with conn:`; init_schema returns.
InitSchemaCommit(c) ==
    /\ pc[c] = SchemaLabel(Len(SchemaTables) + 1)
    /\ CommitStmt(c)
    /\ Return(c, "ok", 0)
    /\ StmtFrame

\* The files an application opens: a new one, one an earlier init_schema left
\* without rows, and files earlier sessions filled.
SchemaDbs == {NewFile, EmptyDb, SeedDb, SearchDb}

\* The state once the threads have connected and before any has run
\* init_schema: there is no FileManager yet.
InitSchemaState ==
    /\ db \in SchemaDbs
    /\ writer = NoCtx
    /\ wdb = db
    /\ pc = [c \in Ctx |-> "idle"]
    /\ args = [c \in Ctx |-> NoArgs]
    /\ ret = [c \in Ctx |-> NoRet]
    /\ ops = 0
    /\ fs = InitFs
    /\ monitoring = FALSE
    /\ obsAlive = FALSE
    /\ obsStopped = FALSE
    /\ watches = {}
    /\ queue = << >>
    /\ events = 0
    /\ OwnConns

SchemaOps(c) ==
    \/ InitSchemaCall(c)
    \/ \E i \in 1..Len(SchemaTables) : InitSchemaCreate(c, i)
    \/ InitSchemaCommit(c)

\* Threads that run init_schema on one file, as the command line and the
\* window do at their start.
NextSchema == \E c \in Callers : SchemaOps(c)

SpecSchema == InitSchemaState /\ [][NextSchema]_vars

\* The state once the application has started on a store an earlier session
\* left, the files having moved while it was not running; the monitor is off.
InitCatalog ==
    /\ db \in VerifyDbs
    /\ writer = NoCtx
    /\ wdb = db
    /\ pc = [c \in Ctx |-> "idle"]
    /\ args = [c \in Ctx |-> NoArgs]
    /\ ret = [c \in Ctx |-> NoRet]
    /\ ops = 0
    /\ fs \in VerifyFss
    /\ monitoring = FALSE
    /\ obsAlive = FALSE
    /\ obsStopped = FALSE
    /\ watches = {}
    /\ queue = << >>
    /\ events = 0
    /\ OwnConns

\* The catalog operations that write file records, in the owner's thread.
CatalogOps(c) ==
    \/ \E p \in AddPaths, m \in Metadatas : AddFileCall(c, p, m)
    \/ AddFileInsert(c)
    \/ AddFileCommit(c)
    \/ \E id \in FileArgIds : RemoveFileCall(c, id)
    \/ RemoveFileDelete(c)
    \/ RemoveFileCommit(c)
    \/ \E m \in MovePairs : UpdateFilePathCall(c, m[1], m[2])
    \/ UpdateFilePathUpdate(c)
    \/ UpdateFilePathCommit(c)
    \/ FmLogInsert(c)
    \/ FmLogCommit(c)
    \/ VerifyOps(c)

\* The owner's catalog operations and the filesystem.
NextCatalog ==
    \/ CatalogOps(Owner)
    \/ \E old \in Paths, new \in Paths : FsMove(old, new)

SpecCatalog == InitCatalog /\ [][NextCatalog]_vars

\* The state once a front end has started on a store an earlier session left.
InitFront ==
    /\ db \in FrontDbs
    /\ writer = NoCtx
    /\ wdb = db
    /\ pc = [c \in Ctx |-> "idle"]
    /\ args = [c \in Ctx |-> NoArgs]
    /\ ret = [c \in Ctx |-> NoRet]
    /\ ops = 0
    /\ fs = InitFs
    /\ monitoring = FALSE
    /\ obsAlive = FALSE
    /\ obsStopped = FALSE
    /\ watches = {}
    /\ queue = << >>
    /\ events = 0
    /\ OwnConns

\* The commands of the front ends that run content analysis.
FrontOps(c) ==
    \/ \E p \in AddPaths, ts \in TagLists : CliAddFileCall(c, p, ts)
    \/ \E p \in AddPaths, ts \in TagLists : GuiAddFileCall(c, p, ts)
    \/ \E id \in FileArgIds, ts \in TagLists : CliAutoTagCall(c, id, ts)
    \/ FrontAddFile(c)
    \/ FrontGetFile(c)
    \/ FrontCreateTag(c)
    \/ GuiRemoveSelectedFile(c)
    \/ OnContentAnalysisComplete(c)
    \/ FrontAssign(c)

NextFront == FrontOps(Owner)

SpecFront == InitFront /\ [][NextFront]_vars

\* A store whose records were all in /a when the monitor started, and to which
\* the directory /a/d and the file /a/d/x in it were added since.
DirDb == InsertFile(InsertFile(SeedDb, PathAD, << >>), PathADX, <<"p">>)

\* The monitor observes /a; the store has records of the directory /a/d and of
\* a file in it.
InitDir ==
    /\ db = DirDb
    /\ writer = NoCtx
    /\ wdb = db
    /\ pc = [c \in Ctx |-> "idle"]
    /\ args = [c \in Ctx |-> NoArgs]
    /\ ret = [c \in Ctx |-> NoRet]
    /\ ops = 0
    /\ fs = InitFs
    /\ monitoring = TRUE
    /\ obsAlive = TRUE
    /\ obsStopped = FALSE
    /\ watches = {Dirname(r.file_path) : r \in
                    {x \in SeedDb.files : Dirname(x.file_path) # << >>
                                          /\ Dirname(x.file_path) \in ExistingDirs}}
    /\ queue = << >>
    /\ events = 0
    /\ OwnConns

SpecDir == InitDir /\ [][NextWatch]_vars

\* The state once the application has started on a store an earlier session
\* left, with the observer not started.
InitQuery ==
    /\ db \in QueryDbs
    /\ writer = NoCtx
    /\ wdb = db
    /\ pc = [c \in Ctx |-> "idle"]
    /\ args = [c \in Ctx |-> NoArgs]
    /\ ret = [c \in Ctx |-> NoRet]
    /\ ops = 0
    /\ fs = InitFs
    /\ monitoring = FALSE
    /\ obsAlive = FALSE
    /\ obsStopped = FALSE
    /\ watches = {}
    /\ queue = << >>
    /\ events = 0
    /\ OwnConns

\* The queries of one caller, between its changes to tags and files.
QueryOps(c) ==
    \/ GetAllTagsCall(c)
    \/ \E id \in FileArgIds : GetFileCall(c, id)
    \/ \E n \in QueryNames : SearchByTagNameCall(c, n)
    \/ \E n \in TagNames, k \in KindInputs : CreateTagCall(c, n, k)
    \/ CreateTagInsert(c)
    \/ CreateTagCommit(c)
    \/ \E id \in TagArgIds : DeleteTagCall(c, id)
    \/ DeleteTagDelete(c)
    \/ \E f \in FileArgIds, t \in TagArgIds, v \in OptValues : AssignTagCall(c, f, t, v)
    \/ AssignTagInsert(c)
    \/ \E id \in FileArgIds : RemoveFileCall(c, id)
    \/ RemoveFileDelete(c)
    \/ RemoveFileCommit(c)
    \/ TmLogInsert(c)
    \/ TmLogCommit(c)

NextQuery == QueryOps(Owner)

SpecQuery == InitQuery /\ [][NextQuery]_vars

\* The state once the application has started on a store an earlier session left.
InitSearch ==
    /\ db \in SearchDbs
    /\ writer = NoCtx
    /\ wdb = db
    /\ pc = [c \in Ctx |-> "idle"]
    /\ args = [c \in Ctx |-> NoArgs]
    /\ ret = [c \in Ctx |-> NoRet]
    /\ ops = 0
    /\ fs = InitFs
    /\ monitoring = TRUE
    /\ obsAlive = TRUE
    /\ obsStopped = FALSE
    /\ watches = {Dirname(r.file_path) : r \in
                    {x \in db.files : Dirname(x.file_path) # << >>
                                      /\ Dirname(x.file_path) \in ExistingDirs}}
    /\ queue = << >>
    /\ events = 0
    /\ OwnConns

\* The searches of one caller, between its assignments and additions.
SearchOps(c) ==
    \/ \E q \in Queries : SearchAllCall(c, q)
    \/ \E n \in TagNames \cup {<<"q">>}, v \in QueryValues : SearchByTagValueCall(c, n, v)
    \/ \E p \in AddPaths, m \in Metadatas : AddFileCall(c, p, m)
    \/ AddFileInsert(c)
    \/ AddFileCommit(c)
    \/ \E f \in FileArgIds, t \in TagArgIds, v \in OptValues : AssignTagCall(c, f, t, v)
    \/ AssignTagInsert(c)
    \/ TmLogInsert(c)
    \/ TmLogCommit(c)

NextSearch == SearchOps(Owner)

SpecSearch == InitSearch /\ [][NextSearch]_vars

\* ------------------------------------------------------------------ properties

\* The final segment of a path, stated without basename's search: the longest
\* suffix that holds no separator.
FinalSegment(p) ==
    LET ks == {k \in 0..Len(p) : \A i \in (Len(p) - k + 1)..Len(p) : p[i] # Sep}
        k == CHOOSE x \in ks : \A y \in ks : y <= x
    IN  SubSeq(p, Len(p) - k + 1, Len(p))

FileExists(d, id) == \E f \in d.files : f.id = id

TagExists(d, id) == \E t \in d.tags : t.id = id

\* The view connection c has in a state given by its store variables.
ViewOf(w, wd, d, c) == IF w = c THEN wd ELSE d

\* Context c's operation op has returned normally and c has called nothing since.
Returned(c, op) == pc[c] = "idle" /\ args[c].op = op /\ ret[c].status = "ok"

\* This step is the one in which c's operation op returns.
Returns(c, op) == pc[c] # "idle" /\ pc'[c] = "idle" /\ args[c].op = op

\* C1: once remove_file(id) has returned for a file that existed (so that tags
\* may have been assigned to it), the caller's get_file(id) finds no record and
\* its get_tags_for_file(id) is empty, whatever the other contexts do meanwhile.
C1_RemovedFileHasNoRecordNoTags ==
    \A c \in Callers :
        (Returned(c, "remove_file") /\ ret[c].val = 1) =>
            /\ GetFile(View(c), args[c].file_id) = NotFound
            /\ GetTagsForFile(View(c), args[c].file_id) = {}
            /\ \A r \in View(c).file_tags : r.file_id # args[c].file_id

\* A seeded file that carried a tag has been removed (the only call so far),
\* and the other seeded file still carries its tag.
C1_Witness ==
    \E c \in Callers :
        /\ Returned(c, "remove_file")
        /\ args[c].file_id = 1
        /\ ops = 1
        /\ db.seq.files = 2
        /\ GetTagsForFile(db, 2) # {}

RefIntegrity(d) ==
    \A r \in d.file_tags : FileExists(d, r.file_id) /\ TagExists(d, r.tag_id)

\* C2: in every reachable state, committed or inside an open transaction, every
\* association's file_id is the id of a file record and its tag_id the id of a tag.
C2_ReferentialIntegrity == RefIntegrity(db) /\ RefIntegrity(wdb)

\* A tag created in this run (id 3) has been assigned to a seeded file.
C2_Witness ==
    /\ \E r \in db.file_tags : r.tag_id = 3
    /\ TagExists(db, 3)
    /\ db.seq.files = 2

KeyUnique(d) ==
    \A r1 \in d.file_tags, r2 \in d.file_tags :
        (r1.file_id = r2.file_id /\ r1.tag_id = r2.tag_id) => r1 = r2

\* C3: every state holds at most one association per (file_id, tag_id), and
\* when assign_tag_to_file(f, t, v) returns, the store holds exactly one row for
\* (f, t), with value v: a second assignment overwrites the first.
C3_UpsertOneRowLatestValue ==
    [][/\ KeyUnique(db') /\ KeyUnique(wdb')
       /\ \A c \in Callers :
            (Returns(c, "assign_tag_to_file") /\ ret'[c].status = "ok") =>
                PkRows(db', args[c].file_id, args[c].tag_id) =
                    {[file_id |-> args[c].file_id, tag_id |-> args[c].tag_id,
                      value |-> args[c].value]}]_vars

\* The pair (1, 1), seeded with value "p", has been assigned again with "q".
C3_Witness ==
    \E c \in Callers :
        /\ Returned(c, "assign_tag_to_file")
        /\ args[c].file_id = 1 /\ args[c].tag_id = 1 /\ args[c].value = <<"q">>
        /\ db.seq.files = 2
        /\ PkRows(db, 1, 1) = {[file_id |-> 1, tag_id |-> 1, value |-> <<"q">>]}

\* Both callers are in, or have returned from, assign_tag_to_file on the same
\* pair with different values, and nothing else has been called.
AssignRace ==
    /\ ops = 2
    /\ \A c \in Callers : args[c].op = "assign_tag_to_file"
    /\ args["c1"].file_id = args["c2"].file_id
    /\ args["c1"].tag_id = args["c2"].tag_id
    /\ args["c1"].value # args["c2"].value

\* C4: no call of assign_tag_to_file ever fails on the primary key, and when two
\* contexts assign the same pair with different values, in every interleaving
\* the store holds at most one row for the pair and, once both have returned,
\* exactly one, whose value is one of the two written.
C4_ConcurrentAssignNoDuplicateKey ==
    /\ \A c \in Callers : ret[c].status # "UNIQUE"
    /\ AssignRace =>
        LET f == args["c1"].file_id
            t == args["c1"].tag_id
        IN  /\ Cardinality(PkRows(db, f, t)) <= 1
            /\ (\A c \in Callers : Returned(c, "assign_tag_to_file")) =>
                 \E v \in {args["c1"].value, args["c2"].value} :
                    PkRows(db, f, t) = {[file_id |-> f, tag_id |-> t, value |-> v]}

\* Both assignments of the seeded pair (1, 1) have returned.
C4_Witness ==
    /\ AssignRace
    /\ \A c \in Callers : Returned(c, "assign_tag_to_file")
    /\ args["c1"].file_id = 1 /\ args["c1"].tag_id = 1
    /\ db.seq.files = 2
    /\ Cardinality(PkRows(db, 1, 1)) = 1

\* C5: when delete_tag(t) returns, no association references t, no file's
\* get_tags_for_file holds t, and the number of associations has dropped by
\* exactly the number that referenced t.
C5_DeleteTagCascades ==
    [][\A c \in Callers :
        Returns(c, "delete_tag") =>
            LET t == args[c].tag_id
            IN  /\ \A r \in db'.file_tags : r.tag_id # t
                /\ \A f \in FileArgIds : \A row \in GetTagsForFile(db', f) : row[1] # t
                /\ Cardinality(db'.file_tags) =
                     Cardinality(db.file_tags)
                        - Cardinality({r \in db.file_tags : r.tag_id = t})]_vars

\* The seeded tag 1, assigned to both seeded files, has been deleted.
C5_Witness ==
    \E c \in Callers :
        /\ Returned(c, "delete_tag")
        /\ args[c].tag_id = 1
        /\ ops = 1
        /\ db.seq.files = 2
        /\ db.file_tags = {}
        /\ Cardinality(db.files) = 2

\* C6: assign_tag_to_file whose file or tag does not exist when the INSERT runs
\* raises the foreign-key IntegrityError and leaves the store as it was: no
\* association, no log entry, no transaction left open.
C6_AssignMissingRaisesAndKeepsStore ==
    [][\A c \in Callers :
        (/\ pc[c] = "as_insert" /\ pc'[c] # "as_insert"
         /\ ~(FileExists(View(c), args[c].file_id) /\ TagExists(View(c), args[c].tag_id)))
        => /\ pc'[c] = "idle"
           /\ ret'[c].status = "FOREIGN KEY"
           /\ db' = db
           /\ writer' = NoCtx
           /\ wdb' = db]_vars

\* An assignment to the missing file 3 has raised, and the store holds no row
\* for it.
C6_Witness ==
    \E c \in Callers :
        /\ pc[c] = "idle"
        /\ args[c].op = "assign_tag_to_file"
        /\ ret[c].status = "FOREIGN KEY"
        /\ args[c].file_id = 3 /\ args[c].tag_id = 1
        /\ TagExists(db, 1)
        /\ db.file_tags = SeedDb.file_tags
        /\ db.logs = SeedDb.logs

\* C7: when add_file(path, metadata) returns id, get_file(id) is the record
\* (id, final segment of path, path, metadata).
C7_AddFileThenGetFile ==
    [][\A c \in Callers :
        Returns(c, "add_file") =>
            GetFile(ViewOf(writer', wdb', db', c), ret'[c].val) =
                <<ret'[c].val, FinalSegment(args[c].path), args[c].path,
                  args[c].metadata>>]_vars

\* /b/z has been added with metadata "p"; its record is named "z".
C7_Witness ==
    \E c \in Callers :
        /\ Returned(c, "add_file")
        /\ args[c].path = PathBZ
        /\ GetFile(View(c), ret[c].val) = <<ret[c].val, <<"z">>, PathBZ, <<"p">>>>

\* C8: the UPDATE that update_file_path(old, new) commits for a move event
\* gives every record whose path was old the path new and the name of new's
\* final segment, and leaves the path of every other record as it was.
C8_MoveRewritesEveryMatchingRecord ==
    [][(pc[Watcher] = "ufp_commit" /\ pc'[Watcher] # "ufp_commit") =>
        LET old == args[Watcher].path
            new == args[Watcher].new_path
        IN  /\ Cardinality(db'.files) = Cardinality(db.files)
            /\ \A r \in db.files :
                 \E r2 \in db'.files :
                    /\ r2.id = r.id
                    /\ IF r.file_path = old
                       THEN r2.file_path = new /\ r2.name = FinalSegment(new)
                       ELSE r2.file_path = r.file_path]_vars

\* Both seeded records, which shared /a/x, are at /b/z and named "z" after the
\* move event; a record added at /b/z beforehand is among those left alone.
C8_Witness ==
    /\ Returned(Watcher, "update_file_path")
    /\ args[Watcher].path = PathAX /\ args[Watcher].new_path = PathBZ
    /\ \A id \in {1, 2} :
         \E r \in db.files : r.id = id /\ r.file_path = PathBZ /\ r.name = <<"z">>

\* C9: from the return of stop_file_monitoring until the next start, the
\* observer thread has exited and runs no callback: it is not alive, it is in no
\* update_file_path, and it takes no event from the queue.
C9_StopIsSynchronous ==
    [][/\ ~monitoring' => (~obsAlive' /\ pc'[Watcher] = "idle")
       /\ (~monitoring /\ ~monitoring') =>
            (pc'[Watcher] = pc[Watcher] /\ args'[Watcher] = args[Watcher]
             /\ queue' = queue)]_vars

\* stop_file_monitoring has returned on an observer that had run a callback:
\* its thread is gone.
C9_Witness ==
    /\ Returned(Owner, "stop_file_monitoring")
    /\ ~monitoring
    /\ ~obsAlive
    /\ Returned(Watcher, "update_file_path")

\* C10: remove_file(id) racing with the move event of that record's path: no
\* call ends in an error, an UPDATE that finds no record with the old path
\* changes nothing, and once remove_file has returned the record is absent,
\* whichever statement ran first.
C10_RemoveRacingMoveEvent ==
    [][/\ \A c \in Ctx : ret'[c].status \in {"none", "running", "ok"}
       /\ (pc'[Owner] = "idle" /\ args'[Owner].op = "remove_file"
           /\ ret'[Owner].status = "ok" /\ ret'[Owner].val = 1)
            => ~FileExists(db', args'[Owner].file_id)
       /\ (pc[Watcher] = "ufp_update" /\ pc'[Watcher] = "ufp_commit"
           /\ \A r \in View(Watcher).files : r.file_path # args[Watcher].path)
            => (wdb' = View(Watcher) /\ db' = db)]_vars

\* Both seeded records at /a/x were removed and the move event of /a/x was
\* handled: the store holds no file, and both calls returned normally.
C10_Witness ==
    /\ Returned(Owner, "remove_file")
    /\ ret[Owner].val = 1
    /\ Returned(Watcher, "update_file_path")
    /\ args[Watcher].path = PathAX
    /\ db.seq.files = 2
    /\ db.files = {}

\* The operations of the catalog and the tag store that write to the store.
MutatingOps ==
    {"add_file", "remove_file", "update_file_path", "create_tag", "delete_tag",
     "assign_tag_to_file", "remove_tag_from_file"}

\* C11: every successful mutating call appends a log entry, so that the store
\* holds at least one log entry more than when the call began.  Stated of the
\* first call of a behaviour, which began on the initial store: once it has
\* returned, the log holds more entries than the log of that store, and so is
\* the log of no initial store.
C11_EveryMutatingCallLogs ==
    \A c \in Callers :
        (/\ ops = 1
         /\ pc[c] = "idle" /\ args[c].op \in MutatingOps /\ ret[c].status = "ok") =>
            db.logs \notin {d.logs : d \in InitDbs}

\* The operations that call log_action.
LoggingOps ==
    {"update_file_path", "create_tag", "delete_tag", "assign_tag_to_file",
     "remove_tag_from_file"}

\* The tables an operation's primary write goes to.
Primary(d) == <<d.files, d.tags, d.file_tags>>

\* C12: a logging operation commits its primary write and its log entry in one
\* transaction: every commit of such an operation that changes the files, tags
\* or associations other contexts read also brings them its log entry.
C12_LogInSameTransaction ==
    [][\A c \in Ctx :
        (/\ writer = c /\ writer' # c
         /\ args[c].op \in LoggingOps
         /\ Primary(db') # Primary(db))
        => Cardinality(db'.logs) = Cardinality(db.logs) + 1]_vars

\* All of the rows `rows` are in the table `after`, or none of them is.
AllOrNone(rows, after) == rows \subseteq after \/ rows \cap after = {}

\* C13: a step of update_file_path, remove_file or delete_tag in context c
\* changes what another context r reads for all of the rows the statement
\* touches or for none of them: the records sharing the old path are all
\* rewritten or all as before, and a parent row and the associations that
\* reference it are all gone or all still there.
C13_NoPartialMultiRowWrite ==
    [][\A c \in Ctx : \A r \in Ctx \ {c} :
        (pc[c] # "idle" /\ pc'[c] # pc[c]) =>
            LET v == View(r)
                v2 == ViewOf(writer', wdb', db', r)
            IN  /\ args[c].op = "update_file_path" =>
                    LET hit == {x \in v.files : x.file_path = args[c].path}
                    IN  /\ AllOrNone(hit, v2.files)
                        /\ hit \cap v2.files = {} =>
                              \A x \in hit : \E y \in v2.files :
                                  y.id = x.id /\ y.file_path = args[c].new_path
                /\ args[c].op = "remove_file" =>
                    \/ /\ {x \in v.files : x.id = args[c].file_id} \subseteq v2.files
                       /\ {x \in v.file_tags : x.file_id = args[c].file_id}
                             \subseteq v2.file_tags
                    \/ /\ \A x \in v2.files : x.id # args[c].file_id
                       /\ \A x \in v2.file_tags : x.file_id # args[c].file_id
                /\ args[c].op = "delete_tag" =>
                    \/ /\ {x \in v.tags : x.id = args[c].tag_id} \subseteq v2.tags
                       /\ {x \in v.file_tags : x.tag_id = args[c].tag_id}
                             \subseteq v2.file_tags
                    \/ /\ \A x \in v2.tags : x.id # args[c].tag_id
                       /\ \A x \in v2.file_tags : x.tag_id # args[c].tag_id]_vars

\* One context has just committed the UPDATE that moved both seeded records
\* from /a/x while the other context is inside an operation of its own.
C13_Witness ==
    \E c \in Callers : \E r \in Callers \ {c} :
        /\ pc[c] = "fm_log_insert"
        /\ args[c].path = PathAX
        /\ pc[r] # "idle"
        /\ db.seq.files = 2
        /\ \A id \in {1, 2} :
             \E x \in View(r).files : x.id = id /\ x.file_path = args[c].new_path

\* C14: when a mutating call returns, its connection has no transaction open
\* and every other context reads exactly what the caller read with its own
\* writes in place: the new file record, the association written.
C14_CommittedOnReturn ==
    [][\A c \in Ctx :
        (pc[c] # "idle" /\ pc'[c] = "idle" /\ args[c].op \in MutatingOps
         /\ ret'[c].status = "ok") =>
            /\ writer' # c
            /\ \A r \in Ctx \ {c} :
                LET v2 == ViewOf(writer', wdb', db', r)
                IN  /\ v2 = View(c)
                    /\ args[c].op = "add_file" =>
                          GetFile(v2, ret'[c].val) =
                            <<ret'[c].val, Basename(args[c].path), args[c].path,
                              args[c].metadata>>
                    /\ args[c].op = "assign_tag_to_file" =>
                          PkRows(v2, args[c].file_id, args[c].tag_id) =
                            {[file_id |-> args[c].file_id, tag_id |-> args[c].tag_id,
                              value |-> args[c].value]}]_vars

\* add_file has returned in one context and the other, about to assign a tag
\* to the new file, reads its record.
C14_Witness ==
    \E c \in Callers : \E r \in Callers \ {c} :
        /\ Returned(c, "add_file")
        /\ pc[r] = "as_insert"
        /\ args[r].file_id = ret[c].val
        /\ ~FileExists(SeedDb, ret[c].val)
        /\ GetFile(View(r), ret[c].val) # NotFound

\* The joined rows of file f that satisfy search_all's WHERE clause for query.
MatchingRows(d, f, query) ==
    {j \in LeftJoinRows(d) : j.f = f /\ SearchAllWhere(j, Pattern(query))}

\* C15: the rows search_all(q) returned hold every file that matches q in some
\* field, tag name or association value, and hold it once: one row per file
\* id, returned one time, however many of its joined rows matched.
C15_SearchAllReturnsFileOnce ==
    \A c \in Callers :
        Returned(c, "search_all") =>
            LET result == ret[c].val
            IN  /\ \A r \in DOMAIN result : result[r] = 1
                /\ \A r1 \in DOMAIN result : \A r2 \in DOMAIN result :
                      r1[1] = r2[1] => r1 = r2
                /\ \A f \in View(c).files :
                      MatchingRows(View(c), f, args[c].query) # {} =>
                          \E r \in DOMAIN result : r[1] = f.id

\* search_all("q") has returned /a/x, whose metadata and two association
\* values (and one tag name) all hold "q", in one row.
C15_Witness ==
    \E c \in Callers :
        /\ Returned(c, "search_all")
        /\ args[c].query = <<"q">>
        /\ db = SearchDb
        /\ Cardinality(MatchingRows(db, CHOOSE f \in db.files : f.id = 1, <<"q">>)) = 2
        /\ \A ft \in db.file_tags : ft.file_id = 1 => ft.value = <<"q">>
        /\ <<1, <<"x">>, PathAX, <<"q">>>> \in DOMAIN ret[c].val

\* q occurs in the text x as a run of consecutive characters, letters compared
\* as the store compares them (without regard to ASCII case).
IsSubstring(q, x) ==
    /\ x # NULL
    /\ \E i \in 0..(Len(x) - Len(q)) :
          \A k \in 1..Len(q) : Lower(q[k]) = Lower(x[i + k])

\* q is a substring of file f's path, name or metadata, of the name of a tag
\* associated with f, or of the value of an association of f.
SubstringOfFile(d, f, q) ==
    \/ IsSubstring(q, f.file_path)
    \/ IsSubstring(q, f.name)
    \/ IsSubstring(q, f.metadata)
    \/ \E ft \in d.file_tags :
          /\ ft.file_id = f.id
          /\ \/ IsSubstring(q, ft.value)
             \/ \E t \in d.tags : t.id = ft.tag_id /\ IsSubstring(q, t.name)

\* C16: search_all(q) returns a file if and only if q is a substring of its
\* path, its name, its metadata, the name of one of its tags or the value of
\* one of its associations.
C16_SearchAllIffSubstring ==
    \A c \in Callers :
        Returned(c, "search_all") =>
            \A f \in View(c).files :
                (\E r \in DOMAIN ret[c].val : r[1] = f.id)
                    <=> SubstringOfFile(View(c), f, args[c].query)

\* For a query that holds neither % nor _ the equivalence does hold, also for
\* a file with no association (the joins are LEFT JOINs).
SearchAllIffSubstringWithoutWildcards ==
    \A c \in Callers :
        (/\ Returned(c, "search_all")
         /\ \A k \in 1..Len(args[c].query) : args[c].query[k] \notin {"%", "_"}) =>
            \A f \in View(c).files :
                (\E r \in DOMAIN ret[c].val : r[1] = f.id)
                    <=> SubstringOfFile(View(c), f, args[c].query)

\* File f has an association whose tag is named tag_name and whose value is value.
HasTagValue(d, f, tag_name, value) ==
    \E ft \in d.file_tags : \E t \in d.tags :
        /\ ft.file_id = f.id /\ t.id = ft.tag_id
        /\ t.name = tag_name /\ ft.value = value

\* C17: search_by_tag_value(name, value) returns the rows of exactly the files
\* that have an association whose tag's name is name and whose value is value;
\* a file carrying that tag with another value, or another tag with that
\* value, is not among them.
C17_SearchByTagNameAndValueExact ==
    \A c \in Callers :
        Returned(c, "search_by_tag_value") =>
            DOMAIN ret[c].val =
                {<<f.id, f.file_path, f.name, f.metadata>> :
                    f \in {x \in View(c).files :
                              HasTagValue(View(c), x, args[c].name, args[c].value)}}

\* search_by_tag_value("t", "q") has returned /a/x alone, from a store where
\* /a/y carries "t" with value "p" and the tag "q" with value "q".
C17_Witness ==
    \E c \in Callers :
        /\ Returned(c, "search_by_tag_value")
        /\ args[c].name = <<"t">> /\ args[c].value = <<"q">>
        /\ db = SearchDb
        /\ DOMAIN ret[c].val = {<<1, PathAX, <<"x">>, <<"q">>>>}
        /\ HasTagValue(db, CHOOSE f \in db.files : f.id = 3, <<"t">>, <<"p">>)
        /\ HasTagValue(db, CHOOSE f \in db.files : f.id = 3, <<"q">>, <<"q">>)

\* A text with its letters folded to lower case.
LowerText(x) == [i \in 1..Len(x) |-> Lower(x[i])]

\* The files on disk in the directory of file_path whose name is the name of
\* file_path, in whatever case.
SameNamedFiles(fsys, file_path) ==
    {p \in DOMAIN fsys :
        /\ fsys[p] = "file"
        /\ Dirname(p) = Dirname(file_path)
        /\ LowerText(Basename(p)) = LowerText(Basename(file_path))}

\* This step ends verify_all_files' handling of the first row of its list.
RowHandled(c) ==
    /\ args[c].op = "verify_all_files"
    /\ args[c].rows # << >>
    /\ args'[c].rows = Tail(args[c].rows)

\* C18: when verify_all_files has handled a record whose path does not exist
\* while a same-named file is in the same directory, the record's path is that
\* of the file found.
C18_VerifyResolvesSameNamedFile ==
    [][\A c \in Callers :
        RowHandled(c) =>
            LET row == Head(args[c].rows)
                found == SameNamedFiles(fs, row.file_path)
            IN  (~Exists(fs, row.file_path) /\ found # {}) =>
                    \E r \in ViewOf(writer', wdb', db', c).files :
                        r.id = row.id /\ r.file_path \in found]_vars

\* No entry of the disk is in file_path's directory under file_path's name.
NoCandidate(fsys, file_path) ==
    \A p \in DOMAIN fsys :
        (Dirname(p) = Dirname(file_path) /\ Basename(p) = Basename(file_path))
            => fsys[p] = "none"

\* C19: no step of verify_all_files raises or changes the number of records,
\* and when it finds no candidate for a stale record it goes on to the next
\* row with the store exactly as it was: the record is neither deleted nor
\* changed.
C19_ReconciliationMissIsSilent ==
    [][\A c \in Callers :
        (/\ args[c].op = "verify_all_files" /\ pc[c] # "idle"
         /\ (pc'[c] # pc[c] \/ args'[c] # args[c])) =>
            LET v == View(c)
                v2 == ViewOf(writer', wdb', db', c)
            IN  /\ ret'[c].status \in {"running", "ok"}
                /\ Cardinality(v2.files) = Cardinality(v.files)
                /\ {r.id : r \in v2.files} = {r.id : r \in v.files}
                /\ (pc[c] = "vf_candidate"
                    /\ NoCandidate(fs, Head(args[c].rows).file_path)) =>
                        /\ pc'[c] = "vf_exists"
                        /\ args'[c].rows = Tail(args[c].rows)
                        /\ v2 = v
                        /\ db' = db
                        /\ writer' = writer]_vars

\* verify_all_files has returned on the store holding /a//x and /b/z with
\* neither on disk and nothing moved meanwhile: the store is as it was.
C19_Witness ==
    /\ Returned(Owner, "verify_all_files")
    /\ events = 0
    /\ fs[PathAX] = "none" /\ fs[PathBZ] = "none"
    /\ db = VerifyDb
    /\ writer = NoCtx

\* C20: create_tag with a kind other than boolean, numeric or string ends at
\* its INSERT with the constraint error, and neither the committed store nor
\* what the caller reads has changed: no tag, no log entry.  Every tag of
\* every state, committed or not, has one of the three kinds.
C20_CreateTagInvalidKind ==
    [][/\ \A t \in db'.tags \cup wdb'.tags : t.type \in {"boolean", "numeric", "string"}
       /\ \A c \in Callers :
            (/\ pc[c] = "ct_insert" /\ pc'[c] # "ct_insert"
             /\ args[c].type \notin {"boolean", "numeric", "string"}) =>
                /\ pc'[c] = "idle"
                /\ ret'[c].status = "CHECK"
                /\ db' = db
                /\ ViewOf(writer', wdb', db', c) = View(c)]_vars

\* create_tag("t", "bogus") has raised on the seeded store, whose tags and log
\* are as they were.
C20_Witness ==
    \E c \in Callers :
        /\ pc[c] = "idle"
        /\ args[c].op = "create_tag"
        /\ args[c].type = "bogus"
        /\ ret[c].status = "CHECK"
        /\ db.tags = SeedDb.tags
        /\ db.logs = SeedDb.logs
        /\ db.seq = SeedDb.seq

\* The ids of the file records of store d.
FileIds(d) == {f.id : f \in d.files}

\* From store d to store e no file id was reused or changed: the sequence did
\* not go back, every record of e either keeps the id of a record of d or has
\* an id above every id d ever issued, and no two records of e share an id.
IdsKept(d, e) ==
    /\ d.seq.files <= e.seq.files
    /\ \A f \in e.files : f.id <= e.seq.files
    /\ \A f \in e.files : f.id \in FileIds(d) \/ f.id > d.seq.files
    /\ \A f \in e.files, g \in e.files : f.id = g.id => f = g

\* C21: file ids are unique and never reused, and no operation changes one.  In
\* every step the committed store and the writer's view keep the ids they had;
\* an id new to the committed store appears only in the step in which an
\* add_file returns, it is the id that add_file returns, and it is above every
\* id issued before, the ids of removed records included; two add_file calls
\* never return the same id.
C21_FileIdsUniqueNeverReused ==
    [][/\ IdsKept(db, db')
       /\ IdsKept(db', wdb')
       /\ FileIds(db') \ FileIds(db) # {} =>
            \E c \in Callers :
                /\ Returns(c, "add_file")
                /\ FileIds(db') \ FileIds(db) = {ret'[c].val}
       /\ \A c \in Callers :
            Returns(c, "add_file") =>
                /\ ret'[c].val > db.seq.files
                /\ ret'[c].val \in FileIds(db') \ FileIds(db)
                /\ \A o \in Callers \ {c} :
                     Returned(o, "add_file") => ret[o].val # ret'[c].val]_vars

\* On the seeded store (ids 1 and 2) one caller has removed file 2 and the
\* other's add_file has returned 3: the freed id 2 was not given out again.
C21_Witness ==
    \E c \in Callers, o \in Callers :
        /\ Returned(c, "remove_file") /\ args[c].file_id = 2 /\ ret[c].val = 1
        /\ Returned(o, "add_file") /\ ret[o].val = 3
        /\ FileIds(db) = {1, 3}

\* The file records, tags and associations of store d.
Content(d) == [files |-> d.files, tags |-> d.tags, file_tags |-> d.file_tags]

\* C22: remove_file(id) for an id that has no record raises nothing and changes
\* no file record, tag or association: its DELETE leaves the caller's view as
\* it was and goes on to the commit, the call returns normally, and a call
\* that deleted no row commits the content the store already had.  Two calls
\* with the same id leave what one call leaves.
C22_RemoveFileIdempotent ==
    [][\A c \in Callers :
        /\ (/\ pc[c] = "remove_delete" /\ pc'[c] # "remove_delete"
            /\ ~FileExists(View(c), args[c].file_id)) =>
                /\ pc'[c] = "remove_commit"
                /\ ret'[c].val = 0
                /\ Content(ViewOf(writer', wdb', db', c)) = Content(View(c))
        /\ Returns(c, "remove_file") =>
                /\ ret'[c].status = "ok"
                /\ ret'[c].val = 0 => Content(db') = Content(db)
                /\ \A o \in Callers \ {c} :
                     (/\ ops = 2 /\ Returned(o, "remove_file")
                      /\ args[o].file_id = args[c].file_id) =>
                        \E d \in InitDbs :
                            Content(db') = Content(DeleteFile(d, args[c].file_id))]_vars

\* Both callers have removed the seeded file 1: one call deleted the row, the
\* other found none, and the store holds file 2 with its tag.
C22_Witness ==
    \E c \in Callers, o \in Callers :
        /\ Returned(c, "remove_file") /\ args[c].file_id = 1 /\ ret[c].val = 1
        /\ Returned(o, "remove_file") /\ args[o].file_id = 1 /\ ret[o].val = 0
        /\ Content(db) = Content(DeleteFile(SeedDb, 1))
        /\ GetTagsForFile(db, 2) # {}

\* C23: delete_tag(id) for an id that has no tag raises nothing and changes no
\* tag, file record or association: its DELETE leaves the caller's view as it
\* was and goes on to the log entry, the call returns normally, and its commit
\* publishes the content the store already had.  Two calls with the same id
\* leave what one call leaves.
C23_DeleteTagIdempotent ==
    [][\A c \in Callers :
        /\ (/\ pc[c] = "dt_delete" /\ pc'[c] # "dt_delete"
            /\ ~TagExists(View(c), args[c].tag_id)) =>
                /\ pc'[c] = "tm_log_insert"
                /\ Content(ViewOf(writer', wdb', db', c)) = Content(View(c))
        /\ Returns(c, "delete_tag") =>
                /\ ret'[c].status = "ok"
                /\ ~TagExists(db, args[c].tag_id) => Content(db') = Content(db)
                /\ \A o \in Callers \ {c} :
                     (/\ ops = 2 /\ Returned(o, "delete_tag")
                      /\ args[o].tag_id = args[c].tag_id) =>
                        \E d \in InitDbs :
                            Content(db') = Content(DeleteTagRow(d, args[c].tag_id))]_vars

\* Both callers have deleted the seeded tag 1, which two files carried: the
\* store holds what one delete_tag leaves, and both calls wrote a log entry.
C23_Witness ==
    /\ \A c \in Callers : Returned(c, "delete_tag") /\ args[c].tag_id = 1
    /\ Content(db) = Content(DeleteTagRow(SeedDb, 1))
    /\ SeedDb.file_tags # {} /\ db.file_tags = {}
    /\ Cardinality(db.logs) = Cardinality(SeedDb.logs) + 2

\* C24: remove_tag_from_file(file_id, tag_id) deletes the association of that
\* pair when there is one and raises nothing when there is none.  Its DELETE
\* takes exactly the rows of the pair out of the caller's view and goes on to
\* the log entry; when the call returns, the committed store has lost exactly
\* those rows: every other association, every file record and every tag is as
\* it was.
C24_RemoveTagFromFileFrame ==
    [][\A c \in Callers :
        /\ (pc[c] = "rt_delete" /\ pc'[c] # "rt_delete") =>
                LET v == View(c)
                    w == ViewOf(writer', wdb', db', c)
                IN  /\ pc'[c] = "tm_log_insert"
                    /\ w.file_tags =
                         {r \in v.file_tags :
                             ~(r.file_id = args[c].file_id /\ r.tag_id = args[c].tag_id)}
                    /\ w.files = v.files
                    /\ w.tags = v.tags
        /\ Returns(c, "remove_tag_from_file") =>
                /\ ret'[c].status = "ok"
                /\ db'.file_tags =
                     {r \in db.file_tags :
                         ~(r.file_id = args[c].file_id /\ r.tag_id = args[c].tag_id)}
                /\ db'.files = db.files
                /\ db'.tags = db.tags]_vars

\* On the seeded store one caller has removed tag 1 from file 1 and the other
\* has removed a pair that had no association: file 2 still carries tag 1 with
\* its value, and both files and both tags are there.
C24_Witness ==
    \E c \in Callers, o \in Callers :
        /\ Returned(c, "remove_tag_from_file")
        /\ args[c].file_id = 1 /\ args[c].tag_id = 1
        /\ Returned(o, "remove_tag_from_file")
        /\ PkRows(SeedDb, args[o].file_id, args[o].tag_id) = {}
        /\ db.file_tags = {[file_id |-> 2, tag_id |-> 1, value |-> <<"q">>]}
        /\ db.files = SeedDb.files
        /\ db.tags = SeedDb.tags

\* This step is a call of op by the owner.
Calls(op) == ops' = ops + 1 /\ args'[Owner].op = op

\* C25: the monitor is Stopped (monitoring false) or Watching (monitoring
\* true).  start_file_monitoring from Stopped gives Watching with a new running
\* observer thread, and the thread of the observer before it has exited;
\* stop_file_monitoring from Watching returns in Stopped with the thread
\* exited; start while Watching and stop while Stopped change nothing of the
\* monitor.  Nothing else changes the flag or starts a thread, and no thread
\* runs while Stopped: there is never more than one.
C25_MonitorStateMachine ==
    [][/\ (Calls("start_file_monitoring") /\ ~monitoring) =>
            /\ ~obsAlive
            /\ monitoring' /\ obsAlive' /\ ~obsStopped'
       /\ (Calls("start_file_monitoring") /\ monitoring) =>
            UNCHANGED observerVars
       /\ (Calls("stop_file_monitoring") /\ ~monitoring) =>
            /\ UNCHANGED observerVars
            /\ pc'[Owner] = "idle"
       /\ (Calls("stop_file_monitoring") /\ monitoring) =>
            /\ monitoring' /\ obsStopped'
            /\ pc'[Owner] # "idle"
       /\ Returns(Owner, "stop_file_monitoring") =>
            ~monitoring' /\ ~obsAlive'
       /\ (monitoring /\ ~monitoring') => Returns(Owner, "stop_file_monitoring")
       /\ (~monitoring /\ monitoring') => Calls("start_file_monitoring")
       /\ (~obsAlive /\ obsAlive') => (Calls("start_file_monitoring") /\ ~monitoring)
       /\ ~monitoring' => ~obsAlive']_vars

\* The owner has stopped the monitor and started it again: a second observer
\* thread runs, after the first one exited.  (The move of the seeded file out
\* of its watched directory reached no callback and waits in no queue, so the
\* first observer was stopped when it happened or before it was handled.)
C25_Witness ==
    /\ Returned(Owner, "start_file_monitoring")
    /\ ops = 2
    /\ monitoring /\ obsAlive /\ ~obsStopped
    /\ db = SeedDb
    /\ events = 1 /\ fs[PathAX] = "none"
    /\ queue = << >> /\ args[Watcher].op = "none"

\* The directory that holds path p: what stands before p's last separator and
\* final segment.  A path without a separator has none.
IsParentDir(dir, p) == dir \o <<Sep>> \o FinalSegment(p) = p

C27_WatchSetComputedOncePerStart ==
    [][/\ watches' # watches => (Calls("start_file_monitoring") /\ ~monitoring)
       /\ (pc[Watcher] = "idle" /\ pc'[Watcher] = "ufp_update") =>
            \E dir \in watches : IsParentDir(dir, args'[Watcher].path)
       /\ (events' # events /\ queue' # queue) =>
            \E dir \in watches : IsParentDir(dir, queue'[Len(queue')].src_path)
       /\ (Calls("start_file_monitoring") /\ ~monitoring) =>
            \A f \in View(Owner).files, dir \in ExistingDirs :
                IsParentDir(dir, f.file_path) => dir \in watches']_vars

\* The application started on the empty store (nothing to watch) and /a/x was
\* added afterwards.  The owner has stopped and started the monitor, and the
\* move of /a/x to /a/y has since been applied to the record: the restart
\* put /a in the watch set.
C27_Witness ==
    /\ Returned(Owner, "start_file_monitoring")
    /\ ops = 2
    /\ db.seq.files = 1
    /\ \E f \in db.files : f.id = 1 /\ f.file_path = PathAY
    /\ events = 1
    /\ watches = {DirA}

\* Log e continues log d: every entry of d is in e as it was, and what e adds
\* has ids above every id of d.
LogExtends(d, e) ==
    /\ d.logs \subseteq e.logs
    /\ \A n \in e.logs \ d.logs : \A o \in d.logs : n.id > o.id
    /\ \A n \in e.logs, o \in e.logs : n.id = o.id => n = o

\* C28: the log is append-only.  In every step the committed log continues
\* the committed log before it, and the log a writer sees continues the
\* committed one: no entry is changed or deleted, also not the entries about
\* files and tags that were deleted since.
C28_LogAppendOnly ==
    [][LogExtends(db, db') /\ LogExtends(db', wdb')]_vars

\* The seeded tag 1 has been deleted, with its associations; the two calls of
\* this run have added their entries behind the four seeded ones, which still
\* tell of the tag's creation and assignments.
C28_Witness ==
    /\ \E c \in Callers : Returned(c, "delete_tag") /\ args[c].tag_id = 1
    /\ ~TagExists(db, 1)
    /\ SeedDb.logs \subseteq db.logs
    /\ {n.id : n \in db.logs} = 1..6

\* Thread c's last call was get_connection, and it has not closed or replaced
\* its connection since: it works on the handle the call returned.
Holds(c) == args[c].op = "get_connection"

\* C29: the connection get_connection returned to a thread was opened by that
\* thread, is open, is the one the thread's own _local holds, is in no other
\* thread's _local and is not the handle any other thread got: the observer
\* thread and a caller's thread never work on the same connection.
C29_OwnConnectionPerThread ==
    \A c \in Ctx :
        Holds(c) =>
            LET h == ret[c].val
            IN  /\ h \in 1..Len(conns)
                /\ conns[h].creator = c
                /\ conns[h].open
                /\ local[c] = h
                /\ \A o \in Ctx \ {c} :
                     /\ local[o] # h
                     /\ Holds(o) => ret[o].val # h

\* The main thread connected at start, then the observer thread and the
\* second caller thread asked for a connection, and each of the three holds
\* one of its own.
C29_Witness ==
    /\ \A c \in Ctx : Holds(c)
    /\ ret[Owner].val = 1
    /\ ret[Watcher].val = 2
    /\ ret["c2"].val = 3
    /\ \A h \in 1..3 : conns[h].open

\* Thread c stands inside init_schema.
InSchema(c) == args[c].op = "init_schema" /\ pc[c] # "idle"

\* C30: init_schema may be run again.  No step of it fails, removes a table
\* or changes a row or a sequence of a table the file holds; on a file that
\* holds the four tables no step changes anything; and when it returns the
\* file holds exactly the four tables.
C30_InitSchemaIdempotent ==
    [][\A c \in Callers :
        /\ (InSchema(c) /\ pc'[c] # pc[c]) =>
                /\ db.schema \subseteq db'.schema
                /\ \A t \in db.schema : db'[t] = db[t]
                /\ db'.seq = db.seq
                /\ AllTables \subseteq db.schema => db' = db
                /\ pc'[c] = "idle" => ret'[c].status = "ok"
        /\ Returns(c, "init_schema") =>
                /\ db'.schema = AllTables
                /\ db' = db]_vars

\* init_schema has run twice on the file an earlier session filled, which is
\* as that session left it.
C30_Witness ==
    /\ ops = 2
    /\ \A c \in Callers : args[c].op \in {"none", "init_schema"} /\ pc[c] = "idle"
    /\ \E c \in Callers : Returned(c, "init_schema")
    /\ db = SeedDb
    /\ db.files # {} /\ db.file_tags # {} /\ db.logs # {}

\* ------------------------------------------------------------------ C31

\* C31: get_all_tags returns every tag of the store once, as (id, name, type),
\* and ordered by name ascending: of two consecutive rows of the list, the
\* name of the first is less than or equal to the name of the second.
C31_GetAllTagsOrderedByName ==
    [][Calls("get_all_tags") =>
        LET s == ret'[Owner].val
            d == View(Owner)
        IN  /\ Len(s) = Cardinality(d.tags)
            /\ {s[i] : i \in 1..Len(s)} = {<<t.id, t.name, t.type>> : t \in d.tags}
            /\ \A i \in 1..(Len(s) - 1) : TextLeq(s[i][2], s[i + 1][2])]_vars

\* get_all_tags has returned three tags, the first of which was created after
\* the second, and not all of one name.
C31_Witness ==
    /\ Returned(Owner, "get_all_tags")
    /\ Len(ret[Owner].val) >= 3
    /\ ret[Owner].val[1][1] > ret[Owner].val[2][1]
    /\ ret[Owner].val[1][2] # ret[Owner].val[3][2]

\* ------------------------------------------------------------------ C32

\* C32: get_file(id) raises no error; for an id no record has it returns None,
\* and it returns a record, the record of that id, exactly when a record
\* with the id is in the store.
C32_GetFileAbsentIsNone ==
    [][Calls("get_file") =>
        LET id == args'[Owner].file_id
            v  == ret'[Owner].val
        IN  /\ ret'[Owner].status = "ok"
            /\ (v = NotFound) <=> ~FileExists(View(Owner), id)
            /\ \A f \in View(Owner).files :
                   f.id = id => v = <<f.id, f.name, f.file_path, f.metadata>>]_vars

\* get_file has returned None for the id of a record that was removed, while
\* other records are in the store.
C32_Witness ==
    /\ Returned(Owner, "get_file")
    /\ ret[Owner].val = NotFound
    /\ args[Owner].file_id = 1
    /\ db.files # {}

\* ------------------------------------------------------------------ C33

\* C33: add_file checks neither that its path exists on disk nor that no
\* record holds it: for every path, add_file leaves the records the store had
\* as they were and adds exactly one record, under an id no record had,
\* holding the path, its final segment and the metadata.
C33_AddFileAlwaysAddsOneRecord ==
    [][Returns(Owner, "add_file") =>
        LET new == [id |-> ret'[Owner].val, file_path |-> args[Owner].path,
                    name |-> FinalSegment(args[Owner].path),
                    metadata |-> args[Owner].metadata]
        IN  /\ ret'[Owner].status = "ok"
            /\ ~FileExists(db, new.id)
            /\ db'.files = db.files \cup {new}
            /\ Cardinality(db'.files) = Cardinality(db.files) + 1]_vars

\* add_file has returned for /c/x, which is not on disk and which another
\* record of the store holds already.
C33_Witness ==
    /\ Returned(Owner, "add_file")
    /\ args[Owner].path = PathCX
    /\ ~Exists(fs, PathCX)
    /\ Cardinality({f \in db.files : f.file_path = PathCX}) = 2

\* ------------------------------------------------------------------ C34

\* C34: tag names are not unique. create_tag(name, kind) with a kind of the
\* list adds one tag under an id no tag of the store has, whether or not a
\* tag of that name exists, leaves the other tags as they were, and returns
\* the id of the tag it added, never that of a tag that was there before.
C34_CreateTagAlwaysCreates ==
    [][/\ (/\ pc[Owner] = "ct_insert" /\ pc'[Owner] # "ct_insert"
           /\ args[Owner].type \in {"boolean", "numeric", "string"}) =>
              LET before == View(Owner)
                  after  == ViewOf(writer', wdb', db', Owner)
                  new    == [id |-> ret'[Owner].val, name |-> args[Owner].name,
                             type |-> args[Owner].type]
              IN  /\ pc'[Owner] = "ct_commit"
                  /\ ~TagExists(before, new.id)
                  /\ after.tags = before.tags \cup {new}
                  /\ Cardinality(after.tags) = Cardinality(before.tags) + 1
       /\ (/\ Returns(Owner, "create_tag")
           /\ args[Owner].type \in {"boolean", "numeric", "string"}) =>
              /\ ret'[Owner].status = "ok"
              /\ ret'[Owner].val = ret[Owner].val
              /\ \E t \in db'.tags : t.id = ret'[Owner].val /\ t.name = args[Owner].name
      ]_vars

\* create_tag has returned the id of a new tag whose name an older tag of the
\* store has too.
C34_Witness ==
    /\ Returned(Owner, "create_tag")
    /\ \E t, u \in db.tags :
          /\ t.id = ret[Owner].val
          /\ u.id < t.id
          /\ u.name = t.name
          /\ t.name = args[Owner].name

\* ------------------------------------------------------------------ C35

\* C35: the observer calls update_file_path only for move events of entries
\* that are not directories, with the event's two paths; a move event of a
\* directory is taken from the queue with no call, no change to any record and
\* no log entry, also when records hold the directory's path or a path in it.
C35_DirectoryMoveIgnored ==
    [][(/\ queue # << >> /\ queue' = Tail(queue)
        /\ pc[Watcher] = "idle" /\ ops' = ops) =>
        IF Head(queue).is_directory
        THEN /\ pc'[Watcher] = "idle"
             /\ args'[Watcher] = args[Watcher]
             /\ db' = db
             /\ wdb' = wdb
             /\ writer' = writer
        ELSE /\ pc'[Watcher] = "ufp_update"
             /\ args'[Watcher].op = "update_file_path"
             /\ args'[Watcher].path = Head(queue).src_path
             /\ args'[Watcher].new_path = Head(queue).dest_path]_vars

\* The directory /a/d was moved while /a was observed and the event was taken
\* from the queue: the records of /a/d and /a/d/x, and the log, are as before.
C35_Witness ==
    /\ ops = 0
    /\ events = 1
    /\ fs[PathAD] = "none"
    /\ DirA \in watches
    /\ queue = << >>
    /\ pc[Watcher] = "idle"
    /\ \E f \in db.files : f.file_path = PathAD
    /\ \E f \in db.files : f.file_path = PathADX
    /\ db = DirDb

\* ------------------------------------------------------------------ C36

\* C36: whatever add_file, update_file_path, verify_all_files and remove_file
\* have done, the name of every file record, committed or in the open
\* transaction, is the final segment of the record's path.
C36_NameIsFinalSegment ==
    \A f \in db.files \cup wdb.files : f.name = FinalSegment(f.file_path)

\* verify_all_files has returned after rewriting the path of the first record,
\* stored as /a//x, to /a/x, and the record is named x.
C36_Witness ==
    /\ Returned(Owner, "verify_all_files")
    /\ ops = 1
    /\ \E f \in db.files : f.id = 1 /\ f.file_path = PathAX /\ f.name = <<"x">>
    /\ \E f \in db.files : f.id = 2 /\ f.file_path = PathBZ

\* ------------------------------------------------------------------ C37

\* What update_file_path must leave of store d in store e: the number of file
\* records, their ids and metadata, every record whose path is not old, every
\* tag and every assignment, so that each file has the tags and values it had.
MoveKeeps(d, e, old) ==
    /\ Cardinality(e.files) = Cardinality(d.files)
    /\ FileIds(e) = FileIds(d)
    /\ \A f \in d.files : \E g \in e.files :
          /\ g.id = f.id
          /\ g.metadata = f.metadata
          /\ f.file_path # old => g = f
    /\ e.tags = d.tags
    /\ e.file_tags = d.file_tags
    /\ \A id \in FileIds(d) : GetTagsForFile(e, id) = GetTagsForFile(d, id)
    /\ e.seq.files = d.seq.files

\* C37: update_file_path changes the path and the name of the records that
\* hold the old path and nothing else of the files, tags and assignments: its
\* UPDATE and its commits keep the number of records, every id and metadata,
\* every tag and every assignment.
C37_UpdateFilePathFrame ==
    [][(pc[Owner] # "idle" /\ args[Owner].op = "update_file_path") =>
          /\ MoveKeeps(View(Owner), ViewOf(writer', wdb', db', Owner), args[Owner].path)
          /\ MoveKeeps(db, db', args[Owner].path)]_vars

\* update_file_path has moved /a/x, held by two records of which both carry a
\* tag, to /a/y: both records are there under the new path with their tags.
C37_Witness ==
    /\ Returned(Owner, "update_file_path")
    /\ ops = 1
    /\ args[Owner].new_path = PathAY
    /\ \E f \in db.files : f.id = 1 /\ f.file_path = PathAY /\ f.metadata = << >>
    /\ \E f \in db.files : f.id = 2 /\ f.file_path = PathAY /\ f.metadata = <<"p">>
    /\ GetTagsForFile(db, 1) = {<<1, <<"t">>, "string", <<"p">>>>}
    /\ GetTagsForFile(db, 2) = {<<1, <<"t">>, "string", <<"q">>>>}

\* ------------------------------------------------------------------ C38

\* What remove_file(id) must leave of store d in store e: every tag, and the
\* record and the assignments of every other file.
RemoveFileKeeps(d, e, id) ==
    /\ e.tags = d.tags
    /\ {f \in e.files : f.id # id} = {f \in d.files : f.id # id}
    /\ {ft \in e.file_tags : ft.file_id # id} = {ft \in d.file_tags : ft.file_id # id}

\* What delete_tag(id) must leave of store d in store e: every file record,
\* every other tag and the assignments of every other tag.
DeleteTagKeeps(d, e, id) ==
    /\ e.files = d.files
    /\ {t \in e.tags : t.id # id} = {t \in d.tags : t.id # id}
    /\ {ft \in e.file_tags : ft.tag_id # id} = {ft \in d.file_tags : ft.tag_id # id}

\* C38: the cascades reach assignments only. No step of remove_file(id)
\* changes a tag or the record or an assignment of another file, and no step
\* of delete_tag(id) changes a file record, another tag or an assignment of
\* another tag.
C38_CascadesConfined ==
    [][/\ (pc[Owner] # "idle" /\ args[Owner].op = "remove_file") =>
              /\ RemoveFileKeeps(View(Owner), ViewOf(writer', wdb', db', Owner),
                                 args[Owner].file_id)
              /\ RemoveFileKeeps(db, db', args[Owner].file_id)
       /\ (pc[Owner] # "idle" /\ args[Owner].op = "delete_tag") =>
              /\ DeleteTagKeeps(View(Owner), ViewOf(writer', wdb', db', Owner),
                                args[Owner].tag_id)
              /\ DeleteTagKeeps(db, db', args[Owner].tag_id)]_vars

\* The file /a/x, which carried both tags named "t", was removed and the tag
\* "q", which /a/y carried, was deleted: the two tags "t", the records of
\* /b/z and /a/y and the assignment of /b/z are what is left.
C38_Witness ==
    /\ ops = 2
    /\ pc[Owner] = "idle"
    /\ args[Owner].op \in {"remove_file", "delete_tag"}
    /\ db.tags = {t \in DupDb.tags : t.id # 3}
    /\ Cardinality(db.tags) = 2
    /\ db.files = {f \in DupDb.files : f.id # 1}
    /\ Cardinality(db.files) = 2
    /\ db.file_tags = {[file_id |-> 2, tag_id |-> 1, value |-> NULL]}

\* ------------------------------------------------------------------ C39

\* The assignments of file id in store d whose tag is named exactly name.
NamedAssignments(d, id, name) ==
    {ft \in d.file_tags :
        ft.file_id = id /\ \E t \in d.tags : t.id = ft.tag_id /\ t.name = name}

\* C39: search_by_tag_name(name) returns the row of a file once for each of
\* the file's assignments whose tag is named exactly name, duplicates kept: a
\* file with k such assignments is k times in the result, a file with none
\* is not in it, and nothing else is.
C39_SearchByTagNamePerAssociation ==
    [][Calls("search_by_tag_name") =>
        LET d    == View(Owner)
            name == args'[Owner].name
            v    == ret'[Owner].val
            Row(f) == <<f.id, f.file_path, f.name, f.metadata>>
        IN  /\ DOMAIN v = {Row(f) : f \in {g \in d.files :
                                            NamedAssignments(d, g.id, name) # {}}}
            /\ \A f \in d.files :
                  LET k == Cardinality(NamedAssignments(d, f.id, name))
                  IN  IF k = 0 THEN Row(f) \notin DOMAIN v ELSE v[Row(f)] = k]_vars

\* search_by_tag_name("t") has returned /a/x, which carries two tags named
\* "t", twice, /b/z, which carries one, once, and not /a/y, which carries none.
C39_Witness ==
    /\ Returned(Owner, "search_by_tag_name")
    /\ args[Owner].name = <<"t">>
    /\ db = DupDb
    /\ ret[Owner].val = (<<1, PathAX, <<"x">>, << >>>> :> 2)
                        @@ (<<2, PathBZ, <<"z">>, << >>>> :> 1)

\* ------------------------------------------------------------------ C40

\* The assignments of file id in store d under tags named content_analysis.
ContentAssignments(d, id) == NamedAssignments(d, id, ContentAnalysis)

\* C40: a front end assigns the n >= 2 values content analysis returned for a
\* file under one tag id, that of a tag named content_analysis: during the
\* loop the file has at most one assignment under that id, and when the loop
\* has assigned the n values the file has exactly one, holding the last value
\* of the list and none of the earlier ones.  For a file the front end has
\* just added this is the file's only assignment under a tag of that name
\* (the auto-tag command creates its own tag, and leaves a file analysed
\* before with the assignments under the earlier tags of that name).
C40_ContentValuesOverwritten ==
    [][(pc[Owner] = "fe_assign" /\ Len(args[Owner].rows) >= 2) =>
        LET f     == args[Owner].file_id
            t     == args[Owner].tag_id
            tags  == args[Owner].rows
            under == {ft \in db'.file_tags : ft.file_id = f /\ ft.tag_id = t}
        IN  /\ args'[Owner].tag_id = t
            /\ Cardinality(under) <= 1
            /\ (pc'[Owner] = "idle" /\ ret'[Owner].status = "ok") =>
                  /\ ret'[Owner].val = Len(tags)
                  /\ \E x \in db'.tags : x.id = t /\ x.name = ContentAnalysis
                  /\ under = {[file_id |-> f, tag_id |-> t,
                               value |-> tags[Len(tags)]]}
                  /\ args[Owner].op \in {"cli_add_file", "gui_add_file"} =>
                        ContentAssignments(db', f) = under]_vars

\* The window has assigned three values to a file it added, under the tag
\* named content_analysis that an earlier command created: the file has the
\* one assignment, with the third value.
C40_Witness ==
    /\ pc[Owner] = "idle"
    /\ args[Owner].op = "gui_add_file"
    /\ ret[Owner] = [status |-> "ok", val |-> 3]
    /\ Cardinality({x \in db.tags : x.name = ContentAnalysis}) = 1
    /\ \E ft \in db.file_tags : ft.tag_id = args[Owner].tag_id
                                /\ ft.file_id # args[Owner].file_id
    /\ ContentAssignments(db, args[Owner].file_id) =
          {[file_id |-> args[Owner].file_id, tag_id |-> args[Owner].tag_id,
            value |-> <<"t">>]}

====
